---- MODULE Spec2Model ----
(***************************************************************************)
(* Composite experiment data of qiskit-experiments: the ExperimentData     *)
(* tree (identity, parent/child bookkeeping, copy, save/load through the   *)
(* test suite's DummyService) and composite analysis with marginalization. *)
(*                                                                         *)
(* ExperimentData derives from StoredDataV1, whose code is not part of the *)
(* source tree; its operations (add_child_data, copy, save, load) and the  *)
(* composite analysis are modelled from the specification.  The           *)
(* constructor, the DummyService, the job metadata and the test data are   *)
(* modelled from the source.                                               *)
(*                                                                         *)
(* A second state machine, over exp, call and run, models the experiment   *)
(* objects from the source: construction, the qubit map and the circuit    *)
(* composition of BatchExperiment, the steps of BaseExperiment.run and the *)
(* three option families.  ParallelExperiment's constructor and the jobs'  *)
(* ingestion (add_jobs, block_for_results) are modelled from the           *)
(* specification.                                                          *)
(*                                                                         *)
(* A third state machine, over exps, keeps the experiments, their Options  *)
(* objects and their analyses as objects that refer to one another, for    *)
(* copy(), the overrides of run() and the options of a composite and its   *)
(* components.                                                             *)
(***************************************************************************)
EXTENDS Integers, Sequences, FiniteSets, TLC

VARIABLES objs, nextId, db, last, steps, exp, call, run, exps

vars == <<objs, nextId, db, last, steps, exp, call, run, exps>>

(***************************************************************************)
(* Bounds of the model.                                                    *)
(***************************************************************************)
\* size of the heap of ExperimentData objects
MaxObjs == 8
\* number of operations in a run of the state machine
MaxSteps == 4
\* number of circuits a leaf experiment produces
NumCirc == 2

\* Python's None as an experiment id or an experiment, as a string-valued
\* attribute and as a backend
None == 0

NoneStr == "None"

NoBackend == [cls |-> "NoneType", name |-> "None"]

(***************************************************************************)
(* Backends of the test suite.  A backend is an object with a name().      *)
(***************************************************************************)
FakeMelbourne == [cls |-> "FakeMelbourne", name |-> "fake_melbourne"]

FakeBackend == [cls |-> "FakeBackend", name |-> "fake_backend"]

Backends == {FakeMelbourne, FakeBackend}

BackendName(b) == b.name

(***************************************************************************)
(* The experiments of the tests: FakeExperiment([0, 2]),                   *)
(* FakeExperiment([1, 3]), FakeExperiment([0, 1]),                         *)
(* ParallelExperiment([exp1, exp2]) and BatchExperiment([exp1, exp2]).     *)
(* comps lists the positions of the component experiments in this table.   *)
(***************************************************************************)
Experiments ==
  << [type |-> "FakeExperiment", qubits |-> <<0, 2>>, comps |-> <<>>],
     [type |-> "FakeExperiment", qubits |-> <<1, 3>>, comps |-> <<>>],
     [type |-> "FakeExperiment", qubits |-> <<0, 1>>, comps |-> <<>>],
     [type |-> "ParallelExperiment", qubits |-> <<0, 2, 1, 3>>, comps |-> <<1, 2>>],
     [type |-> "BatchExperiment", qubits |-> <<0, 2, 1, 3>>, comps |-> <<1, 2>>] >>

ExpIds == DOMAIN Experiments

IsComposite(e) == e # None /\ Len(Experiments[e].comps) > 0

(***************************************************************************)
(* Generic helpers.                                                        *)
(***************************************************************************)
Range(s) == {s[i] : i \in DOMAIN s}

Handles == DOMAIN objs

EmptyMetadata == [job_metadata |-> <<>>, note |-> NoneStr]

(***************************************************************************)
(* ExperimentData.__init__: the experiment type is the experiment's, or    *)
(* "unknown" without an experiment; the backend is the one given.          *)
(***************************************************************************)
InitExperimentType(e) == IF e # None THEN Experiments[e].type ELSE "unknown"

(***************************************************************************)
(* StoredDataV1.__init__: a fresh experiment_id, no parent, no children,   *)
(* empty metadata, no tags, no share level, no data.                       *)
(***************************************************************************)
StoredData(id, type, b) ==
  [experiment_id |-> id, parent_id |-> None, experiment_type |-> type,
   backend |-> b, tags |-> {}, share_level |-> NoneStr,
   metadata |-> EmptyMetadata, child_ids |-> <<>>, child_data |-> <<>>,
   data |-> <<>>, results |-> <<>>]

ExperimentData(id, e, b) == StoredData(id, InitExperimentType(e), b)

(***************************************************************************)
(* The handles reachable from h through child_data, h included.            *)
(***************************************************************************)
RECURSIVE ReachIn(_, _)
ReachIn(heap, h) ==
  {h} \cup UNION {ReachIn(heap, heap[h].child_data[i]) : i \in DOMAIN heap[h].child_data}

Reach(h) == ReachIn(objs, h)

\* the number of nodes of the tree under h (a shared child counts once per path)
RECURSIVE TreeSize(_, _)
RECURSIVE KidsSize(_, _)
TreeSize(heap, h) == 1 + KidsSize(heap, heap[h].child_data)
KidsSize(heap, kids) ==
  IF kids = <<>> THEN 0
  ELSE TreeSize(heap, Head(kids)) + KidsSize(heap, Tail(kids))

(***************************************************************************)
(* add_child_data(child): appends the child to the child collection, sets  *)
(* child.parent_id to the parent's experiment_id and appends the child's   *)
(* experiment_id to metadata["child_ids"].                                 *)
(***************************************************************************)
AddChildDataNoParentId(heap, p, c) ==
  [heap EXCEPT ![p].child_data = Append(@, c),
               ![p].child_ids = Append(@, heap[c].experiment_id)]

AddChildDataNoChildId(heap, p, c) ==
  [heap EXCEPT ![p].child_data = Append(@, c),
               ![c].parent_id = heap[p].experiment_id]

AddChildDataOn(heap, p, c) ==
  [heap EXCEPT ![p].child_data = Append(@, c),
               ![p].child_ids = Append(@, heap[c].experiment_id),
               ![c].parent_id = heap[p].experiment_id]

(***************************************************************************)
(* copy(): a deep structural copy.  The copy and, recursively, every       *)
(* descendant get a new identity; tags, share level, backend, type,        *)
(* metadata, data and results are kept; child_ids is rewritten to the      *)
(* copied children's ids, whose parent_id is the copy's id.  The copy      *)
(* itself is attached to no parent.                                        *)
(* CopyRec returns the heap with the copies appended, the next free id     *)
(* and the handle of the copy of h.                                        *)
(***************************************************************************)
CopyNodeKeepIds(orig, id, pid, kids, kidIds) ==
  [orig EXCEPT !.experiment_id = id, !.parent_id = pid, !.child_data = kids]

CopyNodeDropTags(orig, id, pid, kids, kidIds) ==
  [orig EXCEPT !.experiment_id = id, !.parent_id = pid,
               !.child_data = kids, !.child_ids = kidIds, !.tags = {}]

CopyNode(orig, id, pid, kids, kidIds) ==
  [orig EXCEPT !.experiment_id = id, !.parent_id = pid,
               !.child_data = kids, !.child_ids = kidIds]

RECURSIVE CopyRec(_, _, _, _)
RECURSIVE CopyKids(_, _, _, _, _)
CopyRec(heap, nid, h, pid) ==
  LET k == CopyKids(heap, nid + 1, heap[h].child_data, nid, <<>>)
      kidIds == [i \in DOMAIN k.kids |-> k.heap[k.kids[i]].experiment_id]
      node == CopyNode(heap[h], nid, pid, k.kids, kidIds)
  IN  [heap |-> Append(k.heap, node), nid |-> k.nid, h |-> Len(k.heap) + 1]
CopyKids(heap, nid, kids, pid, done) ==
  IF kids = <<>> THEN [heap |-> heap, nid |-> nid, kids |-> done]
  ELSE LET c == CopyRec(heap, nid, Head(kids), pid)
       IN  CopyKids(c.heap, c.nid, Tail(kids), pid, Append(done, c.h))

(***************************************************************************)
(* DummyService.create_experiment: the record stored under experiment_id.  *)
(***************************************************************************)
create_experiment(experiment_type, backend_name, metadata, parent_id, tags, share_level) ==
  [experiment_type |-> experiment_type, parent_id |-> parent_id,
   backend_name |-> backend_name, metadata |-> metadata, tags |-> tags,
   share_level |-> share_level]

(***************************************************************************)
(* DummyService.experiment: a copy of the stored record in which           *)
(* backend_name is replaced by a backend only when it is FakeMelbourne's   *)
(* name, and with the experiment_id added.  NoBackend stands for the       *)
(* missing "backend" key.                                                  *)
(***************************************************************************)
ServiceBackend(backend_name) ==
  IF backend_name = BackendName(FakeMelbourne) THEN FakeMelbourne ELSE NoBackend

experiment(database, experiment_id) ==
  LET db_entry == database[experiment_id]
  IN  [experiment_type |-> db_entry.experiment_type,
       parent_id |-> db_entry.parent_id,
       metadata |-> db_entry.metadata,
       tags |-> db_entry.tags,
       share_level |-> db_entry.share_level,
       backend |-> ServiceBackend(db_entry.backend_name),
       experiment_id |-> experiment_id]

(***************************************************************************)
(* save() / save_metadata(): the node and all its descendants are stored   *)
(* through create_experiment.  The metadata document holds child_ids.      *)
(***************************************************************************)
SavedMetadata(o) == o.metadata @@ [child_ids |-> o.child_ids]

SaveNodes(h) == Reach(h)

SaveRecord(o) ==
  create_experiment(o.experiment_type, BackendName(o.backend), SavedMetadata(o),
                    o.parent_id, o.tags, o.share_level)

SavedDb(database, h) ==
  LET ids == {objs[n].experiment_id : n \in SaveNodes(h)}
      objOf(id) == objs[CHOOSE n \in SaveNodes(h) : objs[n].experiment_id = id]
  IN  [id \in (DOMAIN database) \cup ids |->
         IF id \in ids THEN SaveRecord(objOf(id)) ELSE database[id]]

(***************************************************************************)
(* load(id, service): the node is rebuilt from service.experiment(id) and  *)
(* its children are loaded, recursively, by the ids in child_ids.          *)
(***************************************************************************)
LoadNode(rec, kids) ==
  [experiment_id |-> rec.experiment_id, parent_id |-> rec.parent_id,
   experiment_type |-> rec.experiment_type, backend |-> rec.backend,
   tags |-> rec.tags, share_level |-> rec.share_level,
   metadata |-> [job_metadata |-> rec.metadata.job_metadata, note |-> rec.metadata.note],
   child_ids |-> rec.metadata.child_ids, child_data |-> kids,
   data |-> <<>>, results |-> <<>>]

RECURSIVE LoadRec(_, _, _)
RECURSIVE LoadKids(_, _, _, _)
LoadRec(database, heap, id) ==
  LET rec == experiment(database, id)
      k == LoadKids(database, heap, rec.metadata.child_ids, <<>>)
  IN  [heap |-> Append(k.heap, LoadNode(rec, k.kids)), h |-> Len(k.heap) + 1]
LoadKids(database, heap, ids, done) ==
  IF ids = <<>> THEN [heap |-> heap, kids |-> done]
  ELSE LET c == LoadRec(database, heap, Head(ids))
       IN  LoadKids(database, c.heap, Tail(ids), Append(done, c.h))

\* the number of nodes load(id) creates
RECURSIVE StoredSize(_, _)
RECURSIVE StoredKidsSize(_, _)
StoredSize(database, id) == 1 + StoredKidsSize(database, database[id].metadata.child_ids)
StoredKidsSize(database, ids) ==
  IF ids = <<>> THEN 0
  ELSE StoredSize(database, Head(ids)) + StoredKidsSize(database, Tail(ids))

(***************************************************************************)
(* Counts.  A bitstring is a sequence of bits, written as in the key of a  *)
(* counts dictionary: the last bit is classical bit 0.  A counts           *)
(* dictionary is the sequence of its <<key, count>> items in insertion     *)
(* order; two dictionaries are equal when they hold the same items.        *)
(*                                                                         *)
(* TestCounts are the joint counts the backend of test_parallel_subexp_data*)
(* returns, one dictionary per circuit, and TestExpectedCounts the counts  *)
(* the test expects in the children, per component and circuit.            *)
(***************************************************************************)
TestCounts ==
  << <<
       <<<<0, 0, 0, 0>>, 1>>, <<<<0, 0, 1, 0>>, 6>>, <<<<0, 0, 1, 1>>, 3>>,
       <<<<0, 1, 0, 0>>, 4>>, <<<<0, 1, 0, 1>>, 2>>, <<<<0, 1, 1, 0>>, 1>>,
       <<<<0, 1, 1, 1>>, 3>>, <<<<1, 0, 0, 0>>, 5>>, <<<<1, 0, 0, 1>>, 3>>,
       <<<<1, 0, 1, 0>>, 4>>, <<<<1, 1, 0, 0>>, 4>>, <<<<1, 1, 0, 1>>, 3>>,
       <<<<1, 1, 1, 0>>, 8>>, <<<<1, 1, 1, 1>>, 5>> >>,
     <<
       <<<<0, 0, 0, 1>>, 3>>, <<<<0, 0, 1, 0>>, 4>>, <<<<0, 0, 1, 1>>, 5>>,
       <<<<0, 1, 0, 0>>, 2>>, <<<<0, 1, 0, 1>>, 1>>, <<<<0, 1, 1, 1>>, 7>>,
       <<<<1, 0, 0, 0>>, 3>>, <<<<1, 0, 0, 1>>, 2>>, <<<<1, 0, 1, 0>>, 1>>,
       <<<<1, 0, 1, 1>>, 1>>, <<<<1, 1, 0, 0>>, 7>>, <<<<1, 1, 0, 1>>, 8>>,
       <<<<1, 1, 1, 0>>, 2>> >>,
     <<
       <<<<0, 0, 0, 0>>, 1>>, <<<<0, 0, 0, 1>>, 1>>, <<<<0, 0, 1, 0>>, 8>>,
       <<<<0, 0, 1, 1>>, 7>>, <<<<0, 1, 0, 0>>, 2>>, <<<<0, 1, 0, 1>>, 2>>,
       <<<<0, 1, 1, 0>>, 2>>, <<<<0, 1, 1, 1>>, 1>>, <<<<1, 0, 0, 0>>, 6>>,
       <<<<1, 0, 1, 0>>, 4>>, <<<<1, 0, 1, 1>>, 4>>, <<<<1, 1, 0, 0>>, 5>>,
       <<<<1, 1, 0, 1>>, 2>>, <<<<1, 1, 1, 0>>, 2>>, <<<<1, 1, 1, 1>>, 5>> >>,
     <<
       <<<<0, 0, 0, 0>>, 4>>, <<<<0, 0, 0, 1>>, 5>>, <<<<0, 1, 0, 1>>, 4>>,
       <<<<0, 1, 1, 0>>, 8>>, <<<<0, 1, 1, 1>>, 2>>, <<<<1, 0, 0, 1>>, 6>>,
       <<<<1, 0, 1, 0>>, 8>>, <<<<1, 0, 1, 1>>, 8>>, <<<<1, 1, 0, 1>>, 1>>,
       <<<<1, 1, 1, 0>>, 3>>, <<<<1, 1, 1, 1>>, 3>> >>,
     <<
       <<<<0, 0, 0, 0>>, 3>>, <<<<0, 0, 0, 1>>, 6>>, <<<<0, 0, 1, 0>>, 7>>,
       <<<<0, 0, 1, 1>>, 1>>, <<<<0, 1, 0, 0>>, 1>>, <<<<0, 1, 0, 1>>, 5>>,
       <<<<0, 1, 1, 0>>, 4>>, <<<<1, 0, 0, 0>>, 2>>, <<<<1, 0, 0, 1>>, 4>>,
       <<<<1, 0, 1, 1>>, 3>>, <<<<1, 1, 0, 0>>, 6>>, <<<<1, 1, 1, 1>>, 1>> >> >>

TestExpectedCounts ==
  << << <<<<<<0, 0>>, 14>>, <<<<1, 0>>, 19>>, <<<<1, 1>>, 11>>, <<<<0, 1>>, 8>>>>,
        <<<<<<0, 1>>, 14>>, <<<<1, 0>>, 7>>, <<<<1, 1>>, 13>>, <<<<0, 0>>, 12>>>>,
        <<<<<<0, 0>>, 14>>, <<<<0, 1>>, 5>>, <<<<1, 0>>, 16>>, <<<<1, 1>>, 17>>>>,
        <<<<<<0, 0>>, 4>>, <<<<0, 1>>, 16>>, <<<<1, 0>>, 19>>, <<<<1, 1>>, 13>>>>,
        <<<<<<0, 0>>, 12>>, <<<<0, 1>>, 15>>, <<<<1, 0>>, 11>>, <<<<1, 1>>, 5>>>> >>,
     << <<<<<<0, 0>>, 10>>, <<<<0, 1>>, 10>>, <<<<1, 0>>, 12>>, <<<<1, 1>>, 20>>>>,
        <<<<<<0, 0>>, 12>>, <<<<0, 1>>, 10>>, <<<<1, 0>>, 7>>, <<<<1, 1>>, 17>>>>,
        <<<<<<0, 0>>, 17>>, <<<<0, 1>>, 7>>, <<<<1, 0>>, 14>>, <<<<1, 1>>, 14>>>>,
        <<<<<<0, 0>>, 9>>, <<<<0, 1>>, 14>>, <<<<1, 0>>, 22>>, <<<<1, 1>>, 7>>>>,
        <<<<<<0, 0>>, 17>>, <<<<0, 1>>, 10>>, <<<<1, 0>>, 9>>, <<<<1, 1>>, 7>>>> >> >>

\* a counts dictionary as the set of its items
Items(counts) == Range(counts)

RECURSIVE TotalShots(_)
TotalShots(counts) ==
  IF counts = <<>> THEN 0 ELSE Head(counts)[2] + TotalShots(Tail(counts))

(***************************************************************************)
(* Marginalization.  The key is reduced to the given classical bits, the   *)
(* highest bit first, and the counts of keys with the same reduced key     *)
(* are accumulated, in the order the joint keys are visited.               *)
(***************************************************************************)
ReduceKeyAscending(key, clbits) ==
  [p \in 1..Len(clbits) |-> key[Len(key) - clbits[p]]]

ReduceKey(key, clbits) ==
  [p \in 1..Len(clbits) |-> key[Len(key) - clbits[Len(clbits) - p + 1]]]

AddCountOverwrite(counts, key, n) ==
  IF \E i \in DOMAIN counts : counts[i][1] = key
  THEN LET i == CHOOSE j \in DOMAIN counts : counts[j][1] = key
       IN  [counts EXCEPT ![i] = <<key, n>>]
  ELSE Append(counts, <<key, n>>)

AddCount(counts, key, n) ==
  IF \E i \in DOMAIN counts : counts[i][1] = key
  THEN LET i == CHOOSE j \in DOMAIN counts : counts[j][1] = key
       IN  [counts EXCEPT ![i] = <<key, counts[i][2] + n>>]
  ELSE Append(counts, <<key, n>>)

RECURSIVE MarginalAcc(_, _, _)
MarginalAcc(counts, clbits, acc) ==
  IF counts = <<>> THEN acc
  ELSE MarginalAcc(Tail(counts), clbits,
                   AddCount(acc, ReduceKey(Head(counts)[1], clbits), Head(counts)[2]))

marginal_counts(counts, clbits) == MarginalAcc(counts, clbits, <<>>)

(***************************************************************************)
(* Circuits and their metadata.  A leaf experiment yields NumCirc circuits *)
(* with one classical bit per qubit.  A ParallelExperiment merges the k-th *)
(* circuits of its components into one circuit whose classical bits are    *)
(* the components' bits in component order; a BatchExperiment appends the  *)
(* circuits of its components, one composed circuit per component circuit. *)
(***************************************************************************)
NumClbits(e) == Len(Experiments[e].qubits)

LeafMetadata(e, k) == [experiment_type |-> Experiments[e].type, xval |-> k]

ParallelMetadata(e, k) ==
  [experiment_type |-> Experiments[e].type,
   composite_metadata |-> [j \in DOMAIN Experiments[e].comps |->
                             LeafMetadata(Experiments[e].comps[j], k)],
   composite_index |-> [j \in DOMAIN Experiments[e].comps |-> j - 1]]

BatchMetadata(e, index, k) ==
  [experiment_type |-> Experiments[e].type,
   composite_metadata |-> <<LeafMetadata(Experiments[e].comps[index + 1], k)>>,
   composite_index |-> <<index>>]

CircuitMetadata(e) ==
  IF ~IsComposite(e) THEN [k \in 1..NumCirc |-> LeafMetadata(e, k)]
  ELSE IF Experiments[e].type = "ParallelExperiment"
       THEN [k \in 1..NumCirc |-> ParallelMetadata(e, k)]
       ELSE [n \in 1..(NumCirc * Len(Experiments[e].comps)) |->
               BatchMetadata(e, (n - 1) \div NumCirc, ((n - 1) % NumCirc) + 1)]

\* the classical bits, in the record's circuit, of the component at
\* position j of the record's composite_index
RECURSIVE ClbitOffset(_, _, _)
ClbitOffset(e, index, j) ==
  IF j = 1 THEN 0
  ELSE ClbitOffset(e, index, j - 1) + NumClbits(Experiments[e].comps[index[j - 1] + 1])

ComponentClbits(e, index, j) ==
  [b \in 1..NumClbits(Experiments[e].comps[index[j] + 1]) |->
     ClbitOffset(e, index, j) + b - 1]

(***************************************************************************)
(* Backend results: every circuit's record holds its counts and echoes the *)
(* circuit's metadata.  The counts are drawn from the test's tables: the   *)
(* 4-bit joint counts for a ParallelExperiment, 2-bit counts otherwise.    *)
(***************************************************************************)
NumSamples == Len(TestCounts)

SampleCounts(e, s, k) ==
  IF IsComposite(e) /\ Experiments[e].type = "ParallelExperiment"
  THEN TestCounts[((s + k - 2) % NumSamples) + 1]
  ELSE TestExpectedCounts[1][((s + k - 2) % NumSamples) + 1]

JobData(e, s) ==
  [k \in DOMAIN CircuitMetadata(e) |->
     [counts |-> SampleCounts(e, s, k), metadata |-> CircuitMetadata(e)[k]]]

(***************************************************************************)
(* BaseExperiment._add_job_metadata: metadata["job_metadata"] is a list    *)
(* holding one entry with the job ids and the option values of the run.    *)
(***************************************************************************)
JobMetadata == <<[job_ids |-> <<"job">>, run_options |-> [meas_level |-> 2]]>>

(***************************************************************************)
(* Composite analysis.  The slice of component index idx holds, for every  *)
(* record that names idx in its composite_index, the record's counts       *)
(* marginalized onto the component's bits, with the record's metadata      *)
(* replaced by the component's entry of composite_metadata.                *)
(***************************************************************************)
RECURSIVE RecordSlice(_, _, _, _)
RecordSlice(e, rec, idx, j) ==
  IF j > Len(rec.metadata.composite_index) THEN <<>>
  ELSE (IF rec.metadata.composite_index[j] = idx
        THEN <<[counts |-> marginal_counts(rec.counts,
                              ComponentClbits(e, rec.metadata.composite_index, j)),
                metadata |-> rec.metadata.composite_metadata[j]]>>
        ELSE <<>>) \o RecordSlice(e, rec, idx, j + 1)

RECURSIVE ComponentSlice(_, _, _)
ComponentSlice(e, data, idx) ==
  IF data = <<>> THEN <<>>
  ELSE RecordSlice(e, Head(data), idx, 1) \o ComponentSlice(e, Tail(data), idx)

\* the analysis of a leaf: one result, unsuccessful on an empty slice
LeafAnalysis(data) ==
  <<[success |-> Len(data) > 0,
     value |-> IF Len(data) > 0 THEN TotalShots(data[1].counts) ELSE 0]>>

(***************************************************************************)
(* In-place analysis of the joint data at h: the children at the           *)
(* composite's component positions get their slice and a fresh analysis    *)
(* result; the other children are not touched.                             *)
(***************************************************************************)
ComponentChildShifted(heap, h, idx) ==
  heap[h].child_data[Len(heap[h].child_data) - idx]

ComponentChild(heap, h, idx) == heap[h].child_data[idx + 1]

RECURSIVE AnalyseInPlace(_, _, _, _)
AnalyseInPlace(heap, e, h, idx) ==
  IF idx >= Len(Experiments[e].comps) THEN heap
  ELSE LET c == ComponentChild(heap, h, idx)
           slice == ComponentSlice(e, heap[h].data, idx)
       IN  AnalyseInPlace([heap EXCEPT ![c].data = slice,
                                       ![c].results = LeafAnalysis(slice)],
                          e, h, idx + 1)

(***************************************************************************)
(* analysis.run(experiment_data, replace_results): with replace_results    *)
(* the data is analysed in place; without, a copy of it is.                *)
(***************************************************************************)
AnalysisRun(heap, nid, e, h, replace_results) ==
  IF replace_results
  THEN [heap |-> AnalyseInPlace(heap, e, h, 0), nid |-> nid, h |-> h]
  ELSE LET c == CopyRec(heap, nid, h, None)
       IN  [heap |-> AnalyseInPlace(c.heap, e, c.h, 0), nid |-> c.nid, h |-> c.h]

(***************************************************************************)
(* BaseExperiment.run_analysis: delegates to the analysis of the           *)
(* experiment, passing replace_results on.                                 *)
(***************************************************************************)
run_analysis_default_replace(heap, nid, e, h, replace_results) ==
  AnalysisRun(heap, nid, e, h, FALSE)

run_analysis_always_replace(heap, nid, e, h, replace_results) ==
  AnalysisRun(heap, nid, e, h, TRUE)

run_analysis(heap, nid, e, h, replace_results) ==
  AnalysisRun(heap, nid, e, h, replace_results)

(***************************************************************************)
(* experiment.run(backend).block_for_results(): the container of the run   *)
(* with the records of the job and the job metadata; for a composite, one  *)
(* new child per component, attached with add_child_data, holding the      *)
(* component's slice and analysis result.                                  *)
(***************************************************************************)
RunRoot(id, e, b, s) ==
  [ExperimentData(id, e, b) EXCEPT
     !.data = JobData(e, s),
     !.metadata = [@ EXCEPT !.job_metadata = JobMetadata],
     !.results = IF IsComposite(e) THEN <<>> ELSE LeafAnalysis(JobData(e, s))]

RECURSIVE RunComponents(_, _, _, _, _)
RunComponents(heap, nid, e, h, idx) ==
  IF idx >= Len(Experiments[e].comps) THEN [heap |-> heap, nid |-> nid]
  ELSE LET slice == ComponentSlice(e, heap[h].data, idx)
           child == [ExperimentData(nid, Experiments[e].comps[idx + 1], heap[h].backend)
                       EXCEPT !.data = slice, !.results = LeafAnalysis(slice)]
           h2 == Append(heap, child)
       IN  RunComponents(AddChildDataOn(h2, h, Len(h2)), nid + 1, e, h, idx + 1)

RunOn(heap, nid, e, b, s) ==
  LET h1 == Append(heap, RunRoot(nid, e, b, s))
  IN  IF IsComposite(e) THEN RunComponents(h1, nid + 1, e, Len(h1), 0)
      ELSE [heap |-> h1, nid |-> nid + 1]

RunSize(e) == 1 + (IF e = None THEN 0 ELSE Len(Experiments[e].comps))

(***************************************************************************)
(* Experiments.  An experiment object holds its type, its physical         *)
(* qubits, its components (positions in the Experiments table), the three  *)
(* option families and, per family, the keys set explicitly.  Options are  *)
(* functions from field names to values.                                   *)
(***************************************************************************)
\* the device's qubits are 0..MaxQubit
MaxQubit == 4

EmptyOptions == [n \in {} |-> 0]

\* Options.update_options(**fields)
update_options(options, fields) ==
  [n \in DOMAIN options \cup DOMAIN fields |->
     IF n \in DOMAIN fields THEN fields[n] ELSE options[n]]

\* the attributes every Options object has besides its fields: the method
\* set_experiment_options itself calls on it
OptionsAttributes == {"update_options"}

hasattr(options, field) == field \in DOMAIN options \cup OptionsAttributes

\* _default_experiment_options of the experiment classes: none in
\* BaseExperiment; the tests' FakeExperiment declares dummyoption
default_experiment_options(type) ==
  IF type = "FakeExperiment" THEN [n \in {"dummyoption"} |-> 0] ELSE EmptyOptions

default_transpile_options == [n \in {"optimization_level"} |-> 0]

default_run_options == [n \in {"meas_level"} |-> 2]

\* BaseExperiment.__init__: raises on duplicate qubits; otherwise the
\* object with default options and no key set explicitly
HasDuplicatesNever(qubits) == FALSE

HasDuplicates(qubits) == Len(qubits) # Cardinality(Range(qubits))

NoExperiment == [type |-> "NoneType"]

NewExperiment(type, qubits, comps, qubit_map) ==
  [type |-> type, physical_qubits |-> qubits, num_qubits |-> Len(qubits),
   comps |-> comps, qubit_map |-> qubit_map,
   experiment_options |-> default_experiment_options(type),
   transpile_options |-> default_transpile_options,
   run_options |-> default_run_options,
   set_experiment_options |-> {},
   set_transpile_options |-> {},
   set_run_options |-> {}]

BaseExperimentInitNoDuplicateCheck(type, qubits, comps, qubit_map) ==
  [raised |-> "none", obj |-> NewExperiment(type, qubits, comps, qubit_map)]

BaseExperimentInit(type, qubits, comps, qubit_map) ==
  IF HasDuplicates(qubits)
  THEN [raised |-> "QiskitError", obj |-> NoExperiment]
  ELSE [raised |-> "none", obj |-> NewExperiment(type, qubits, comps, qubit_map)]

(***************************************************************************)
(* BatchExperiment.__init__: the qubit map, an ordered dictionary modelled *)
(* as the sequence of its <<physical qubit, logical qubit>> items in       *)
(* insertion order, built by scanning the components in list order and     *)
(* each component's physical qubits in order.                              *)
(***************************************************************************)
MapHas(m, q) == \E i \in DOMAIN m : m[i][1] = q

MapGet(m, q) == m[CHOOSE i \in DOMAIN m : m[i][1] = q][2]

MapKeys(m) == [i \in DOMAIN m |-> m[i][1]]

MapAddAlwaysCount(st, q) ==
  IF MapHas(st.map, q)
  THEN [st EXCEPT !.logical_qubit = @ + 1]
  ELSE [map |-> Append(st.map, <<q, st.logical_qubit>>),
        logical_qubit |-> st.logical_qubit + 1]

MapAdd(st, q) ==
  IF MapHas(st.map, q) THEN st
  ELSE [map |-> Append(st.map, <<q, st.logical_qubit>>),
        logical_qubit |-> st.logical_qubit + 1]

RECURSIVE MapAddQubits(_, _, _)
MapAddQubits(st, qubits, j) ==
  IF j > Len(qubits) THEN st
  ELSE MapAddQubits(MapAdd(st, qubits[j]), qubits, j + 1)

RECURSIVE MapAddExperiments(_, _, _)
MapAddExperiments(st, experiments, i) ==
  IF i > Len(experiments) THEN st
  ELSE MapAddExperiments(MapAddQubits(st, Experiments[experiments[i]].qubits, 1),
                         experiments, i + 1)

QubitMap(experiments) ==
  MapAddExperiments([map |-> <<>>, logical_qubit |-> 0], experiments, 1).map

BatchExperimentInitReversedQubits(experiments) ==
  LET m == QubitMap(experiments)
  IN  BaseExperimentInit("BatchExperiment",
                         [i \in DOMAIN m |-> m[Len(m) + 1 - i][1]], experiments, m)

BatchExperimentInit(experiments) ==
  LET m == QubitMap(experiments)
  IN  BaseExperimentInit("BatchExperiment", MapKeys(m), experiments, m)

(***************************************************************************)
(* ParallelExperiment.__init__: the physical qubits are the components'    *)
(* physical qubits one after the other; components that share a qubit are  *)
(* a construction-time error.                                              *)
(***************************************************************************)
RECURSIVE ConcatQubits(_)
ConcatQubits(experiments) ==
  IF experiments = <<>> THEN <<>>
  ELSE Experiments[Head(experiments)].qubits \o ConcatQubits(Tail(experiments))

ParallelExperimentInit(experiments) ==
  BaseExperimentInit("ParallelExperiment", ConcatQubits(experiments),
                     experiments, <<>>)

(***************************************************************************)
(* Circuits.  A circuit has a name, classical bits, metadata and data, the *)
(* sequence of its instructions; an instruction has a name, its qubit      *)
(* operands and its classical-bit operands.  A transpiled circuit          *)
(* addresses the device's qubits.                                          *)
(***************************************************************************)
Instruction(name, qargs, cargs) == [name |-> name, qargs |-> qargs, cargs |-> cargs]

\* an instruction the transpiler may leave in the circuit circ of the
\* component at position pos (from 1), on a qubit that is not the
\* component's; two-qubit instructions also address the component's first
\* qubit
NoStray == [pos |-> 0, circ |-> 0, name |-> "none", qubit |-> 0]

StrayNames == {"delay", "x", "cx"}

StrayInstruction(qubits, stray) ==
  IF stray.name = "cx"
  THEN Instruction("cx", <<qubits[1], stray.qubit>>, <<>>)
  ELSE Instruction(stray.name, <<stray.qubit>>, <<>>)

\* the transpiled circuit k of the component c at position pos: the stray
\* instruction, if it is this circuit's, and the measurement of every
\* qubit of the component into its classical bit
TranspiledCircuit(c, pos, k, stray) ==
  LET qubits == Experiments[c].qubits
  IN  [name |-> "circuit",
       num_clbits |-> Len(qubits),
       metadata |-> LeafMetadata(c, k),
       data |-> (IF stray.pos = pos /\ stray.circ = k
                 THEN <<StrayInstruction(qubits, stray)>> ELSE <<>>)
                \o [b \in 1..Len(qubits) |->
                      Instruction("measure", <<qubits[b]>>, <<b - 1>>)]]

(***************************************************************************)
(* BatchExperiment.circuits, for one circuit of one component: the new     *)
(* circuit carries the composite metadata and the component circuit's      *)
(* instructions with their qubits mapped through the qubit map.  An        *)
(* instruction with a qubit that is not a key of the map is skipped if it  *)
(* is a delay, and raises otherwise.                                       *)
(***************************************************************************)
KeyError(qubit_map, qargs) == \E i \in DOMAIN qargs : ~MapHas(qubit_map, qargs[i])

MappedInstruction(qubit_map, inst) ==
  Instruction(inst.name, [i \in DOMAIN inst.qargs |-> MapGet(qubit_map, inst.qargs[i])],
              inst.cargs)

RECURSIVE AppendInstructionsInFront(_, _, _)
AppendInstructionsInFront(qubit_map, data, acc) ==
  IF data = <<>> THEN [raised |-> "none", data |-> acc]
  ELSE IF KeyError(qubit_map, Head(data).qargs)
       THEN IF Head(data).name = "delay"
            THEN AppendInstructionsInFront(qubit_map, Tail(data), acc)
            ELSE [raised |-> "QiskitError", data |-> <<>>]
       ELSE AppendInstructionsInFront(qubit_map, Tail(data),
                               <<MappedInstruction(qubit_map, Head(data))>> \o acc)

RECURSIVE AppendInstructions(_, _, _)
AppendInstructions(qubit_map, data, acc) ==
  IF data = <<>> THEN [raised |-> "none", data |-> acc]
  ELSE IF KeyError(qubit_map, Head(data).qargs)
       THEN IF Head(data).name = "delay"
            THEN AppendInstructions(qubit_map, Tail(data), acc)
            ELSE [raised |-> "QiskitError", data |-> <<>>]
       ELSE AppendInstructions(qubit_map, Tail(data),
                               Append(acc, MappedInstruction(qubit_map, Head(data))))

BatchCircuitMetadataNoIndex(self, index, sub_circ) ==
  [experiment_type |-> self.type,
   composite_metadata |-> <<sub_circ.metadata>>,
   composite_index |-> <<>>]

BatchCircuitMetadata(self, index, sub_circ) ==
  [experiment_type |-> self.type,
   composite_metadata |-> <<sub_circ.metadata>>,
   composite_index |-> <<index>>]

BatchCircuit(self, index, sub_circ) ==
  LET r == AppendInstructions(self.qubit_map, sub_circ.data, <<>>)
  IN  [raised |-> r.raised,
       circuit |-> [name |-> "batch_" \o sub_circ.name,
                    num_qubits |-> self.num_qubits,
                    num_clbits |-> sub_circ.num_clbits,
                    metadata |-> BatchCircuitMetadata(self, index, sub_circ),
                    data |-> r.data]]

\* transpile(circuits, backend, initial_layout = physical_qubits): every
\* qubit operand becomes the physical qubit the layout gives it
Transpile(circuit, initial_layout) ==
  [circuit EXCEPT !.data =
     [i \in DOMAIN circuit.data |->
        Instruction(circuit.data[i].name,
                    [j \in DOMAIN circuit.data[i].qargs |->
                       initial_layout[circuit.data[i].qargs[j] + 1]],
                    circuit.data[i].cargs)]]

(***************************************************************************)
(* BatchExperiment.circuits: for every component in order, for every       *)
(* transpiled circuit of the component in order, one batch circuit; an     *)
(* error in one of them leaves no circuits.                                *)
(***************************************************************************)
RECURSIVE BatchCircuits(_, _, _, _, _)
BatchCircuits(self, stray, index, k, batch_circuits) ==
  IF index >= Len(self.comps) THEN [raised |-> "none", circuits |-> batch_circuits]
  ELSE IF k > NumCirc THEN BatchCircuits(self, stray, index + 1, 1, batch_circuits)
  ELSE LET sub_circ == TranspiledCircuit(self.comps[index + 1], index + 1, k, stray)
           r == BatchCircuit(self, index, sub_circ)
       IN  IF r.raised # "none" THEN [raised |-> r.raised, circuits |-> <<>>]
           ELSE BatchCircuits(self, stray, index, k + 1,
                              Append(batch_circuits, r.circuit))

BatchExperiment_circuits(self, stray) == BatchCircuits(self, stray, 0, 1, <<>>)

\* BaseExperiment._transpiled_circuits: the experiment's circuits,
\* transpiled for the backend with the physical qubits as initial layout;
\* the transpiler raises if the backend has too few qubits
_transpiled_circuits(self, backend, stray) ==
  LET r == BatchExperiment_circuits(self, stray)
  IN  IF r.raised # "none" THEN r
      ELSE IF \E i \in DOMAIN self.physical_qubits :
                 self.physical_qubits[i] >= backend.n_qubits
           THEN [raised |-> "TranspilerError", circuits |-> <<>>]
           ELSE [raised |-> "none",
                 circuits |-> [i \in DOMAIN r.circuits |->
                                 Transpile(r.circuits[i], self.physical_qubits)]]

\* _run_jobs: the circuits split into jobs of at most max_experiments
\* circuits, or one job if the backend states no maximum (0)
RECURSIVE JobCircuitsFullOnly(_, _)
JobCircuitsFullOnly(circuits, max_experiments) ==
  IF max_experiments # 0 /\ Len(circuits) > max_experiments
  THEN <<SubSeq(circuits, 1, max_experiments)>>
       \o (IF Len(circuits) >= 2 * max_experiments
           THEN JobCircuitsFullOnly(SubSeq(circuits, max_experiments + 1, Len(circuits)),
                                    max_experiments)
           ELSE <<>>)
  ELSE <<circuits>>

RECURSIVE JobCircuits(_, _)
JobCircuits(circuits, max_experiments) ==
  IF max_experiments # 0 /\ Len(circuits) > max_experiments
  THEN <<SubSeq(circuits, 1, max_experiments)>>
       \o JobCircuits(SubSeq(circuits, max_experiments + 1, Len(circuits)),
                      max_experiments)
  ELSE <<circuits>>

(***************************************************************************)
(* The experiment state machine.  exp is the experiment object under       *)
(* configuration, call the last call made on it (its name, its arguments   *)
(* and the error it raised, or "none"), and run the state of a run() of    *)
(* the experiment: the position in run(), the backend, the circuits, the   *)
(* jobs submitted, the job handles add_jobs registered, the state of a     *)
(* block_for_results call and the records ingested.                        *)
(***************************************************************************)
Call(op, args, raised) == [op |-> op, args |-> args, raised |-> raised]

\* a backend of a run: its number of qubits and the maximum number of
\* circuits of a job (0: none stated)
NoRunBackend == [name |-> "None", n_qubits |-> 0, max_experiments |-> 0]

RunBackends ==
  { [name |-> "fake_backend", n_qubits |-> MaxQubit + 1, max_experiments |-> 0],
    [name |-> "fake_chunked", n_qubits |-> MaxQubit + 1, max_experiments |-> NumCirc],
    [name |-> "fake_uneven", n_qubits |-> MaxQubit + 1, max_experiments |-> NumCirc + 1],
    [name |-> "fake_small", n_qubits |-> 2, max_experiments |-> 0] }

IdleRun ==
  [pc |-> "idle", backend |-> NoRunBackend, stray |-> NoStray, timeout |-> FALSE,
   circuits |-> <<>>, jobs |-> <<>>, job_handles |-> <<>>, job_ids |-> <<>>,
   block |-> "none", data |-> <<>>]

(***************************************************************************)
(* The state machine.  objs is the heap of ExperimentData objects (a       *)
(* handle is a position in it), nextId the next fresh experiment id, db    *)
(* the DummyService's database, and last the operation that ran last:      *)
(* its name, its argument h, its second argument or result r, its flag.    *)
(***************************************************************************)
Op(op, h, r, flag) == [op |-> op, h |-> h, r |-> r, flag |-> flag]

Init ==
  /\ objs = <<>>
  /\ nextId = 1
  /\ db = <<>>
  /\ last = Op("init", 0, 0, FALSE)
  /\ steps = 0
  /\ exp = NoExperiment
  /\ call = Call("init", 0, "none")
  /\ run = IdleRun
  /\ exps = <<>>

\* the arguments the constructor is called with
NewInputs == { <<None, FakeMelbourne, TRUE>> }

\* ExperimentData(experiment, backend), then, as in the tests' setUp, the
\* share level (and tags and a metadata entry) set on the new object
NewData(e, b, annotated) ==
  /\ Len(objs) < MaxObjs
  /\ LET o == ExperimentData(nextId, e, b)
     IN  objs' = Append(objs,
                   IF annotated
                   THEN [o EXCEPT !.share_level = "hey", !.tags = {"tag"},
                                  !.metadata = [@ EXCEPT !.note = "note"]]
                   ELSE o)
  /\ nextId' = nextId + 1
  /\ last' = Op("new", 0, Len(objs) + 1, annotated)
  /\ UNCHANGED db

\* p.add_child_data(c); a child that holds p below it is not attached, nor
\* one that p holds already
AddChildData(p, c) ==
  /\ p \in Handles /\ c \in Handles
  /\ p \notin Reach(c)
  /\ c \notin Range(objs[p].child_data)
  /\ TreeSize(objs, p) + TreeSize(objs, c) <= MaxObjs
  /\ objs' = AddChildDataOn(objs, p, c)
  /\ last' = Op("add_child_data", p, c, FALSE)
  /\ UNCHANGED <<nextId, db>>

\* h.copy()
Copy(h) ==
  /\ h \in Handles
  /\ Len(objs) + TreeSize(objs, h) <= MaxObjs
  /\ LET c == CopyRec(objs, nextId, h, None)
     IN  /\ objs' = c.heap
         /\ nextId' = c.nid
         /\ last' = Op("copy", h, c.h, FALSE)
  /\ UNCHANGED db

\* h.save() or h.save_metadata() on a root, with the DummyService as
\* service.  Both store the experiment record of every node: analysis
\* results and figures are sub-resources the service does not implement.
\* The service implements create_experiment only (update_experiment
\* raises), so the nodes saved are new to the database.
Save(h) ==
  /\ h \in Handles
  /\ objs[h].parent_id = None
  /\ \A n \in Reach(h) : objs[n].experiment_id \notin DOMAIN db
  /\ \A n \in Reach(h) : objs[n].backend # NoBackend
  /\ db' = SavedDb(db, h)
  /\ last' = Op("save", h, 0, FALSE)
  /\ UNCHANGED <<objs, nextId>>

\* ExperimentData.load(id, service) of a root; last.h is the object whose save
\* immediately preceded the load, if it is the one loaded
Load(id) ==
  /\ id \in DOMAIN db
  /\ db[id].parent_id = None
  /\ Len(objs) + StoredSize(db, id) <= MaxObjs
  /\ LET l == LoadRec(db, objs, id)
     IN  /\ objs' = l.heap
         /\ last' = Op("load",
                       IF last.op = "save" /\ objs[last.h].experiment_id = id
                       THEN last.h ELSE 0,
                       l.h, FALSE)
  /\ UNCHANGED <<nextId, db>>

\* e.run(b).block_for_results(), the backend returning sample s
Run(e, b, s) ==
  /\ Len(objs) + RunSize(e) <= MaxObjs
  /\ LET r == RunOn(objs, nextId, e, b, s)
     IN  /\ objs' = r.heap
         /\ nextId' = r.nid
  /\ last' = Op("run", e, Len(objs) + 1, FALSE)
  /\ UNCHANGED db

\* e.run_analysis(h, replace_results) for a composite experiment e and the
\* joint data h of a run of e with its component children attached
IsJointData(e, h) ==
  /\ IsComposite(e)
  /\ objs[h].experiment_type = Experiments[e].type
  /\ objs[h].metadata.job_metadata # <<>>
  /\ Len(objs[h].child_data) >= Len(Experiments[e].comps)

RunAnalysis(e, h, replace_results) ==
  /\ h \in Handles
  /\ IsJointData(e, h)
  /\ replace_results \/ Len(objs) + TreeSize(objs, h) <= MaxObjs
  /\ LET a == run_analysis(objs, nextId, e, h, replace_results)
     IN  /\ objs' = a.heap
         /\ nextId' = a.nid
         /\ last' = Op("analysis", h, a.h, replace_results)
  /\ UNCHANGED db

RunInputs == { <<3, FakeBackend, 3>>, <<4, FakeBackend, 1>>, <<5, FakeMelbourne, 2>> }

Step(A) ==
  steps < MaxSteps /\ steps' = steps + 1 /\ A /\ UNCHANGED <<exp, call, run, exps>>

Next ==
  \/ \E i \in NewInputs : Step(NewData(i[1], i[2], i[3]))
  \/ \E p, c \in Handles : Step(AddChildData(p, c))
  \/ \E h \in Handles : Step(Copy(h))
  \/ \E h \in Handles : Step(Save(h))
  \/ \E id \in DOMAIN db : Step(Load(id))
  \/ \E i \in RunInputs : Step(Run(i[1], i[2], i[3]))
  \/ \E e \in ExpIds, h \in Handles, r \in BOOLEAN : Step(RunAnalysis(e, h, r))

Spec == Init /\ [][Next]_vars

(***************************************************************************)
(* Properties.                                                             *)
(***************************************************************************)
Last(s) == s[Len(s)]

TreeIds(h) == {objs[n].experiment_id : n \in Reach(h)}

\* C1: immediately after parent.add_child_data(c), c.parent_id is the
\* parent's experiment_id, c is the last element of parent.child_data(),
\* c.experiment_id is the last element of parent.metadata["child_ids"], and
\* child_ids[i] is the experiment_id of child_data()[i] at every position i.
C1_AddChildBookkeeping ==
  last.op = "add_child_data" =>
    LET p == objs[last.h]
        c == objs[last.r]
    IN  /\ c.parent_id = p.experiment_id
        /\ Len(p.child_data) > 0 /\ Last(p.child_data) = last.r
        /\ Len(p.child_ids) > 0 /\ Last(p.child_ids) = c.experiment_id
        /\ DOMAIN p.child_ids = DOMAIN p.child_data
        /\ \A i \in DOMAIN p.child_data :
             p.child_ids[i] = objs[p.child_data[i]].experiment_id

\* a child was attached to a parent that already held two children
C1_Witness ==
  /\ last.op = "add_child_data"
  /\ Len(objs[last.h].child_data) >= 3
  /\ objs[last.r].parent_id = objs[last.h].experiment_id

\* C2: in every reachable state, every ExperimentData holds as many ids in
\* metadata["child_ids"] as it holds children.
C2_ChildIdsMatchChildren ==
  \A h \in Handles : Len(objs[h].child_ids) = Len(objs[h].child_data)

\* a loaded parent with children, in a heap that also holds the result of a
\* composite analysis
C2_Witness ==
  /\ last.op = "load"
  /\ Len(objs[last.r].child_data) >= 2
  /\ \E h \in Handles : h # last.r /\ Len(objs[h].child_data) >= 2

\* C3: the parent_id of an ExperimentData changes only from None, and no
\* operation changes a parent_id that was set.
C3_ParentIdSetOnce ==
  [][\A h \in DOMAIN objs :
       objs'[h].parent_id # objs[h].parent_id => objs[h].parent_id = None]_vars

(***************************************************************************)
(* C4: copy() returns a tree of the same shape with equal tags, type,      *)
(* share level, backend and metadata at every node, in which every node's  *)
(* experiment_id differs from every id of the original tree; a copied      *)
(* root has parent_id None, a copied non-root a parent_id other than its   *)
(* original's.                                                             *)
(***************************************************************************)
RECURSIVE IsCopyOf(_, _, _)
IsCopyOf(o, c, ids) ==
  /\ objs[c].tags = objs[o].tags
  /\ objs[c].experiment_type = objs[o].experiment_type
  /\ objs[c].share_level = objs[o].share_level
  /\ objs[c].backend = objs[o].backend
  /\ objs[c].metadata = objs[o].metadata
  /\ objs[c].experiment_id \notin ids
  /\ IF objs[o].parent_id = None THEN objs[c].parent_id = None
     ELSE objs[c].parent_id # objs[o].parent_id
  /\ Len(objs[c].child_data) = Len(objs[o].child_data)
  /\ \A i \in DOMAIN objs[o].child_data :
       IsCopyOf(objs[o].child_data[i], objs[c].child_data[i], ids)

C4_CopyEqualFreshIds ==
  last.op = "copy" => IsCopyOf(last.h, last.r, TreeIds(last.h))

\* a tree with children and a node carrying tags and a share level was copied
C4_Witness ==
  /\ last.op = "copy"
  /\ Len(objs[last.h].child_data) >= 1
  /\ \E n \in Reach(last.h) : objs[n].tags # {} /\ objs[n].share_level = "hey"

\* C5: at every node of the tree copy() returns, child_ids lists the
\* experiment_ids of the copied children in order, and every copied child's
\* parent_id is the id of its copied parent, never an id of the original tree.
C5_CopyConsistent ==
  last.op = "copy" =>
    \A n \in Reach(last.r) :
      /\ DOMAIN objs[n].child_ids = DOMAIN objs[n].child_data
      /\ \A i \in DOMAIN objs[n].child_data :
           /\ objs[n].child_ids[i] = objs[objs[n].child_data[i]].experiment_id
           /\ objs[objs[n].child_data[i]].parent_id = objs[n].experiment_id
           /\ objs[objs[n].child_data[i]].parent_id \notin TreeIds(last.h)

\* a tree of three nodes or more was copied
C5_Witness ==
  /\ last.op = "copy"
  /\ Len(objs[last.r].child_data) >= 2
  /\ last.r \notin Reach(last.h)

(***************************************************************************)
(* C6: save() on a root followed by load(root.experiment_id, service)      *)
(* rebuilds the tree: every descendant was stored, and every loaded node   *)
(* equals the original in type, tags, share level, backend name, parent_id *)
(* and metadata including child_ids.                                       *)
(***************************************************************************)
RECURSIVE IsLoadOf(_, _)
IsLoadOf(o, l) ==
  /\ objs[o].experiment_id \in DOMAIN db
  /\ objs[l].experiment_id = objs[o].experiment_id
  /\ objs[l].experiment_type = objs[o].experiment_type
  /\ objs[l].tags = objs[o].tags
  /\ objs[l].share_level = objs[o].share_level
  /\ BackendName(objs[l].backend) = BackendName(objs[o].backend)
  /\ objs[l].parent_id = objs[o].parent_id
  /\ objs[l].metadata = objs[o].metadata
  /\ objs[l].child_ids = objs[o].child_ids
  /\ Len(objs[l].child_data) = Len(objs[o].child_data)
  /\ \A i \in DOMAIN objs[o].child_data :
       IsLoadOf(objs[o].child_data[i], objs[l].child_data[i])

C6_SaveLoadRoundTrip ==
  (last.op = "load" /\ last.h # 0) => IsLoadOf(last.h, last.r)

(***************************************************************************)
(* C7: composite analysis with replace_results=True returns the parent it  *)
(* was given, with the same experiment_id, the same number of children     *)
(* and, at every position, a child with the experiment_id it had.          *)
(***************************************************************************)
C7_ReplaceTrueSameIdentity ==
  [][(last'.op = "analysis" /\ last'.flag) =>
       LET h == last'.h
       IN  /\ last'.r = h
           /\ objs'[h].experiment_id = objs[h].experiment_id
           /\ Len(objs'[h].child_data) = Len(objs[h].child_data)
           /\ \A i \in DOMAIN objs[h].child_data :
                objs'[objs'[h].child_data[i]].experiment_id
                  = objs[objs[h].child_data[i]].experiment_id]_vars

\* an analysis with replace_results=True ran on a parent with children
C7_Witness ==
  /\ last.op = "analysis" /\ last.flag
  /\ Len(objs[last.h].child_data) >= 2
  /\ last.r = last.h

(***************************************************************************)
(* C8: composite analysis with replace_results=False returns a parent with *)
(* another experiment_id and as many children as the input, each with an   *)
(* experiment_id other than that of the input's child at its position;     *)
(* the input parent, its child list, its child_ids and its children are    *)
(* left unchanged.                                                         *)
(***************************************************************************)
C8_ReplaceFalseNewIdentity ==
  [][(last'.op = "analysis" /\ ~last'.flag) =>
       LET h == last'.h
           r == last'.r
       IN  /\ objs'[r].experiment_id # objs[h].experiment_id
           /\ Len(objs'[r].child_data) = Len(objs[h].child_data)
           /\ \A i \in DOMAIN objs[h].child_data :
                objs'[objs'[r].child_data[i]].experiment_id
                  # objs[objs[h].child_data[i]].experiment_id
           /\ \A n \in ReachIn(objs, h) : objs'[n] = objs[n]]_vars

\* an analysis with replace_results=False ran on a parent that holds its
\* component children and one more child
C8_Witness ==
  /\ last.op = "analysis" /\ ~last.flag
  /\ Len(objs[last.h].child_data) >= 3
  /\ last.r # last.h

(***************************************************************************)
(* C9: with replace_results=True, a child the parent holds beside the      *)
(* children of the composite's components stays attached at its position   *)
(* and is unchanged in identity, records and analysis results; only the    *)
(* component children are overwritten.                                     *)
(***************************************************************************)
NumComponents(h) ==
  LET e == CHOOSE x \in ExpIds : IsComposite(x) /\ Experiments[x].type = objs[h].experiment_type
  IN  Len(Experiments[e].comps)

C9_ExtraChildUntouched ==
  [][(last'.op = "analysis" /\ last'.flag) =>
       LET h == last'.h
           comps == {objs[h].child_data[i] : i \in 1..NumComponents(h)}
       IN  /\ objs'[h].child_data = objs[h].child_data
           /\ \A n \in DOMAIN objs : n \notin comps => objs'[n] = objs[n]
           /\ \A n \in comps :
                objs'[n] = [objs[n] EXCEPT !.data = objs'[n].data,
                                           !.results = objs'[n].results]]_vars

\* an analysis with replace_results=True ran on a parent holding, after its
\* component children, a child with records and an analysis result of its own
C9_Witness ==
  /\ last.op = "analysis" /\ last.flag
  /\ Len(objs[last.h].child_data) > NumComponents(last.h)
  /\ LET x == objs[Last(objs[last.h].child_data)]
     IN  /\ x.data # <<>> /\ x.results # <<>>
         /\ x.data # objs[objs[last.h].child_data[1]].data

(***************************************************************************)
(* C10: for a ParallelExperiment, the counts in child i's k-th record are  *)
(* the joint counts of circuit k marginalized onto component i's bits:     *)
(* every joint key is cut down to the component's bit positions, the       *)
(* counts of joint keys with the same reduced key are summed, and the      *)
(* child's record holds as many shots as the joint record.  On the joint   *)
(* counts of test_parallel_subexp_data the result is the test's expected   *)
(* counts.                                                                 *)
(***************************************************************************)
\* the part of a joint key read from n classical bits starting at bit lo
KeyPart(key, lo, n) == SubSeq(key, Len(key) - lo - n + 1, Len(key) - lo)

RECURSIVE SumCounts(_)
SumCounts(items) ==
  IF items = {} THEN 0
  ELSE LET x == CHOOSE y \in items : TRUE
       IN  x[2] + SumCounts(items \ {x})

MarginalItems(joint, lo, n) ==
  { <<KeyPart(x[1], lo, n),
      SumCounts({y \in Items(joint) : KeyPart(y[1], lo, n) = KeyPart(x[1], lo, n)})>> :
    x \in Items(joint) }

IsParallelData(h) ==
  /\ objs[h].experiment_type = "ParallelExperiment"
  /\ objs[h].metadata.job_metadata # <<>>
  /\ Len(objs[h].child_data) >= 2

C10_MarginalCounts ==
  \A h \in Handles : IsParallelData(h) =>
    \A i \in 0..1 :
      LET child == objs[objs[h].child_data[i + 1]]
      IN  /\ Len(child.data) = Len(objs[h].data)
          /\ \A k \in DOMAIN objs[h].data :
               LET joint == objs[h].data[k].counts
                   got == child.data[k].counts
               IN  /\ Items(got) = MarginalItems(joint, 2 * i, 2)
                   /\ Len(got) = Cardinality(Items(got))
                   /\ TotalShots(got) = TotalShots(joint)
                   /\ \A m \in DOMAIN TestCounts :
                        joint = TestCounts[m] =>
                          Items(got) = Items(TestExpectedCounts[i + 1][m])

\* the first joint counts of the test were marginalized: the first child
\* holds {"00": 14, "10": 19, "11": 11, "01": 8}
C10_Witness ==
  \E h \in Handles :
    /\ IsParallelData(h)
    /\ Len(objs[h].data) >= 2
    /\ objs[h].data[1].counts = TestCounts[1]
    /\ Items(objs[objs[h].child_data[1]].data[1].counts)
         = { <<(<<0, 0>>), 14>>, <<(<<1, 0>>), 19>>, <<(<<1, 1>>), 11>>, <<(<<0, 1>>), 8>> }
    /\ Items(objs[objs[h].child_data[2]].data[1].counts)
         = { <<(<<0, 0>>), 10>>, <<(<<0, 1>>), 10>>, <<(<<1, 0>>), 12>>, <<(<<1, 1>>), 20>> }

(***************************************************************************)
(* Runs and analyses of the ParallelExperiment alone, the backend          *)
(* returning any of the test's joint counts.                               *)
(***************************************************************************)
NextParallel ==
  \/ \E b \in Backends, s \in 1..NumSamples : Step(Run(4, b, s))
  \/ \E h \in Handles, r \in BOOLEAN : Step(RunAnalysis(4, h, r))

SpecParallel == Init /\ [][NextParallel]_vars

(***************************************************************************)
(* The actions of the experiment state machine.                            *)
(***************************************************************************)
LeafIds == {e \in ExpIds : ~IsComposite(e)}

\* the component lists of a composite: one or two leaf experiments
ComponentLists == {<<a>> : a \in LeafIds} \cup {<<a, b>> : a, b \in LeafIds}

\* the qubit lists a leaf experiment is constructed with
LeafQubits == {Experiments[e].qubits : e \in LeafIds} \cup {<<0, 0>>}

\* FakeExperiment(qubits)
ConstructLeaf(qubits) ==
  /\ exp = NoExperiment
  /\ LET r == BaseExperimentInit("FakeExperiment", qubits, <<>>, <<>>)
     IN  /\ exp' = r.obj
         /\ call' = Call("FakeExperiment", qubits, r.raised)
  /\ UNCHANGED run

\* BatchExperiment(experiments)
ConstructBatch(experiments) ==
  /\ exp = NoExperiment
  /\ LET r == BatchExperimentInit(experiments)
     IN  /\ exp' = r.obj
         /\ call' = Call("BatchExperiment", experiments, r.raised)
  /\ UNCHANGED run

\* ParallelExperiment(experiments)
ConstructParallel(experiments) ==
  /\ exp = NoExperiment
  /\ LET r == ParallelExperimentInit(experiments)
     IN  /\ exp' = r.obj
         /\ call' = Call("ParallelExperiment", experiments, r.raised)
  /\ UNCHANGED run

\* the stray instructions of a batch: none, or one in a circuit of a
\* component, on a device qubit that is not the component's
Strays(self) ==
  IF self = NoExperiment THEN {}
  ELSE
  {NoStray} \cup
  { s \in [pos : DOMAIN self.comps, circ : 1..NumCirc, name : StrayNames,
           qubit : 0..MaxQubit] :
      s.qubit \notin Range(Experiments[self.comps[s.pos]].qubits) }

\* exp.circuits() of a batch experiment, the components' transpiler
\* leaving the stray instruction
Circuits(stray) ==
  /\ exp # NoExperiment /\ exp.type = "BatchExperiment"
  /\ run.pc = "idle"
  /\ LET r == BatchExperiment_circuits(exp, stray)
     IN  /\ call' = Call("circuits", stray, r.raised)
         /\ run' = [run EXCEPT !.pc = "circuits()", !.stray = stray,
                               !.circuits = r.circuits]
  /\ UNCHANGED exp

(***************************************************************************)
(* exp.run(backend, analysis=None, timeout) of a batch experiment, step by *)
(* step: the backend check and the new container; the transpiled circuits; *)
(* one backend.run per job; add_jobs, the job metadata and the return.     *)
(***************************************************************************)
RunStart(backend, stray, timeout) ==
  /\ exp # NoExperiment /\ exp.type = "BatchExperiment"
  /\ run.pc = "idle"
  /\ IF backend = NoRunBackend
     THEN /\ call' = Call("run", backend, "QiskitError")
          /\ run' = [run EXCEPT !.pc = "raised"]
     ELSE /\ call' = Call("run", backend, "none")
          /\ run' = [run EXCEPT !.pc = "circuits", !.backend = backend,
                                !.stray = stray, !.timeout = timeout]
  /\ UNCHANGED exp

RunCircuitsAfterJob ==
  /\ run.pc = "circuits"
  /\ LET r == _transpiled_circuits(exp, run.backend, run.stray)
     IN  /\ call' = [call EXCEPT !.raised = r.raised]
         /\ run' = [run EXCEPT !.pc = IF r.raised = "none" THEN "add_jobs" ELSE "raised",
                               !.circuits = r.circuits,
                               !.jobs = <<[job_id |-> 1, circuits |-> <<>>,
                                           status |-> "running"]>>]
  /\ UNCHANGED exp

RunCircuits ==
  /\ run.pc = "circuits"
  /\ LET r == _transpiled_circuits(exp, run.backend, run.stray)
     IN  /\ call' = [call EXCEPT !.raised = r.raised]
         /\ run' = [run EXCEPT !.pc = IF r.raised = "none" THEN "jobs" ELSE "raised",
                               !.circuits = r.circuits]
  /\ UNCHANGED exp

\* _run_jobs: the next backend.run
RunJob ==
  /\ run.pc = "jobs"
  /\ LET job_circuits == JobCircuits(run.circuits, run.backend.max_experiments)
         n == Len(run.jobs) + 1
     IN  run' = [run EXCEPT
                   !.jobs = Append(@, [job_id |-> n, circuits |-> job_circuits[n],
                                       status |-> "running"]),
                   !.pc = IF n = Len(job_circuits) THEN "add_jobs" ELSE "jobs"]
  /\ UNCHANGED <<exp, call>>

\* experiment_data.add_jobs(jobs, timeout), _add_job_metadata and the
\* return of the container
RunAddJobs ==
  /\ run.pc = "add_jobs"
  /\ run' = [run EXCEPT !.job_handles = [j \in DOMAIN run.jobs |-> j],
                        !.job_ids = [j \in DOMAIN run.jobs |-> run.jobs[j].job_id],
                        !.pc = "returned"]
  /\ UNCHANGED <<exp, call>>

(***************************************************************************)
(* The jobs run on the backend on their own: a running job ends as done,   *)
(* in error or cancelled.                                                  *)
(***************************************************************************)
TerminalStatus == {"done", "error", "cancelled"}

JobTerminates(j, status) ==
  /\ j \in DOMAIN run.jobs
  /\ run.jobs[j].status = "running"
  /\ run' = [run EXCEPT !.jobs[j].status = status]
  /\ UNCHANGED <<exp, call>>

\* the records of the job handles given, those of done jobs, in the order
\* of the handles and, within a job, of its circuits
RECURSIVE JobRecordsReversed(_, _)
JobRecordsReversed(jobs, handles) ==
  IF handles = <<>> THEN <<>>
  ELSE JobRecordsReversed(jobs, Tail(handles)) \o
       (IF jobs[Head(handles)].status = "done"
        THEN [i \in DOMAIN jobs[Head(handles)].circuits |->
                [job_id |-> jobs[Head(handles)].job_id, index |-> i,
                 metadata |-> jobs[Head(handles)].circuits[i].metadata]]
        ELSE <<>>)

RECURSIVE JobRecords(_, _)
JobRecords(jobs, handles) ==
  IF handles = <<>> THEN <<>>
  ELSE (IF jobs[Head(handles)].status = "done"
        THEN [i \in DOMAIN jobs[Head(handles)].circuits |->
                [job_id |-> jobs[Head(handles)].job_id, index |-> i,
                 metadata |-> jobs[Head(handles)].circuits[i].metadata]]
        ELSE <<>>) \o JobRecords(jobs, Tail(handles))

\* experiment_data.block_for_results() is called
BlockForResults ==
  /\ run.pc = "returned"
  /\ run.block = "none"
  /\ call' = Call("block_for_results", 0, "none")
  /\ run' = [run EXCEPT !.block = "waiting"]
  /\ UNCHANGED exp

\* every registered job has ended: the records are ingested and the call
\* returns
BlockReturns ==
  /\ run.block = "waiting"
  /\ \A j \in Range(run.job_handles) : run.jobs[j].status \in TerminalStatus
  /\ run' = [run EXCEPT !.block = "returned",
                        !.data = JobRecords(run.jobs, run.job_handles)]
  /\ UNCHANGED <<exp, call>>

\* the timeout of the run elapses while a job is pending: the pending jobs
\* are abandoned and the records of the jobs that finished are ingested
BlockTimeout ==
  /\ run.block = "waiting"
  /\ run.timeout
  /\ \E j \in Range(run.job_handles) : run.jobs[j].status \notin TerminalStatus
  /\ run' = [run EXCEPT !.block = "timed_out",
                        !.data = JobRecords(run.jobs, run.job_handles)]
  /\ UNCHANGED <<exp, call>>

(***************************************************************************)
(* Setting options.  The fields of a call are a function from the field    *)
(* names given to their values.                                            *)
(***************************************************************************)
OptionValues == {1}

Fields(names) == UNION {[S -> OptionValues] : S \in (SUBSET names) \ {{}}}

ExperimentFieldNames == {"dummyoption", "unknown", "update_options"}

TranspileFieldNames == {"optimization_level", "basis_gates", "initial_layout"}

RunFieldNames == {"shots", "meas_level"}

set_experiment_options(self, fields) ==
  IF \E field \in DOMAIN fields : ~hasattr(self.experiment_options, field)
  THEN [raised |-> "AttributeError", obj |-> self]
  ELSE [raised |-> "none",
        obj |-> [self EXCEPT
                   !.experiment_options = update_options(@, fields),
                   !.set_experiment_options = @ \cup DOMAIN fields]]

set_transpile_options_check_last(self, fields) ==
  [raised |-> IF "initial_layout" \in DOMAIN fields THEN "QiskitError" ELSE "none",
   obj |-> [self EXCEPT
              !.transpile_options = update_options(@, fields),
              !.set_transpile_options = @ \cup DOMAIN fields]]

set_transpile_options(self, fields) ==
  IF "initial_layout" \in DOMAIN fields
  THEN [raised |-> "QiskitError", obj |-> self]
  ELSE [raised |-> "none",
        obj |-> [self EXCEPT
                   !.transpile_options = update_options(@, fields),
                   !.set_transpile_options = @ \cup DOMAIN fields]]

set_run_options(self, fields) ==
  [raised |-> "none",
   obj |-> [self EXCEPT
              !.run_options = update_options(@, fields),
              !.set_run_options = @ \cup DOMAIN fields]]

SetExperimentOptions(fields) ==
  /\ exp # NoExperiment
  /\ LET r == set_experiment_options(exp, fields)
     IN  /\ exp' = r.obj
         /\ call' = Call("set_experiment_options", fields, r.raised)
  /\ UNCHANGED run

SetTranspileOptions(fields) ==
  /\ exp # NoExperiment
  /\ LET r == set_transpile_options(exp, fields)
     IN  /\ exp' = r.obj
         /\ call' = Call("set_transpile_options", fields, r.raised)
  /\ UNCHANGED run

SetRunOptions(fields) ==
  /\ exp # NoExperiment
  /\ LET r == set_run_options(exp, fields)
     IN  /\ exp' = r.obj
         /\ call' = Call("set_run_options", fields, r.raised)
  /\ UNCHANGED run

\* the entries of an Options object for the given keys
OptionsDict(options, keys) == [key \in keys |-> options[key]]

\* a config that stores every option, set or not
configAllOptions(self) ==
  [cls |-> self.type,
   args |-> <<self.physical_qubits>>,
   experiment_options |-> self.experiment_options,
   transpile_options |-> self.transpile_options,
   run_options |-> self.run_options]

\* config(): the class, the arguments of the constructor and, of every
\* family of options, the explicitly set keys with their current values
config(self) ==
  [cls |-> self.type,
   args |-> <<self.physical_qubits>>,
   experiment_options |-> OptionsDict(self.experiment_options, self.set_experiment_options),
   transpile_options |-> OptionsDict(self.transpile_options, self.set_transpile_options),
   run_options |-> OptionsDict(self.run_options, self.set_run_options)]

\* from_config(config): a dict is to be turned into an ExperimentConfig, but
\* the call that does so unpacks the builtin dict type (ExperimentConfig(**dict)),
\* which raises TypeError; an ExperimentConfig constructs the experiment and
\* sets the options of every family whose dict is not empty
from_config(cfg, is_dict) ==
  IF is_dict THEN [raised |-> "TypeError", obj |-> NoExperiment]
  ELSE LET ret  == BaseExperimentInit(cfg.cls, cfg.args[1], <<>>, <<>>)
           ret1 == IF ret.raised # "none" \/ cfg.experiment_options = EmptyOptions
                   THEN ret ELSE set_experiment_options(ret.obj, cfg.experiment_options)
           ret2 == IF ret1.raised # "none" \/ cfg.transpile_options = EmptyOptions
                   THEN ret1 ELSE set_transpile_options(ret1.obj, cfg.transpile_options)
           ret3 == IF ret2.raised # "none" \/ cfg.run_options = EmptyOptions
                   THEN ret2 ELSE set_run_options(ret2.obj, cfg.run_options)
       IN  ret3

\* exp.config()
Config ==
  /\ exp # NoExperiment
  /\ call' = Call("config", config(exp), "none")
  /\ UNCHANGED <<exp, run>>

\* exp = type(exp).from_config(exp.config()), the config given as an
\* ExperimentConfig or as a dict
FromConfig(is_dict) ==
  /\ exp # NoExperiment
  /\ LET r == from_config(config(exp), is_dict)
     IN  /\ exp' = IF r.raised = "none" THEN r.obj ELSE exp
         /\ call' = Call("from_config", [config |-> config(exp), is_dict |-> is_dict],
                         r.raised)
  /\ UNCHANGED run

(***************************************************************************)
(* The specifications of the experiment state machine: construction and    *)
(* circuit composition; a run of a batch experiment and its jobs; the      *)
(* options of an experiment.                                               *)
(***************************************************************************)
ExperimentStep(A) == A /\ UNCHANGED <<objs, nextId, db, last, steps, exps>>

NextBatch ==
  \/ \E qubits \in LeafQubits : ExperimentStep(ConstructLeaf(qubits))
  \/ \E experiments \in ComponentLists : ExperimentStep(ConstructBatch(experiments))
  \/ \E experiments \in ComponentLists : ExperimentStep(ConstructParallel(experiments))
  \/ \E stray \in Strays(exp) : ExperimentStep(Circuits(stray))

SpecBatch == Init /\ [][NextBatch]_vars

\* the stray instructions of the runs: none, or a delay or a gate on the
\* device's last qubit in the last circuit of the first component
RunStrays(self) ==
  {s \in Strays(self) :
     \/ s = NoStray
     \/ s.pos = 1 /\ s.circ = NumCirc /\ s.qubit = MaxQubit /\ s.name \in {"delay", "x"}}

NextRun ==
  \/ \E experiments \in ComponentLists : ExperimentStep(ConstructBatch(experiments))
  \/ \E backend \in RunBackends \cup {NoRunBackend}, stray \in RunStrays(exp),
        timeout \in BOOLEAN : ExperimentStep(RunStart(backend, stray, timeout))
  \/ ExperimentStep(RunCircuits)
  \/ ExperimentStep(RunJob)
  \/ ExperimentStep(RunAddJobs)
  \/ \E j \in DOMAIN run.jobs, status \in TerminalStatus :
        ExperimentStep(JobTerminates(j, status))
  \/ ExperimentStep(BlockForResults)
  \/ ExperimentStep(BlockReturns)
  \/ ExperimentStep(BlockTimeout)

SpecRun == Init /\ [][NextRun]_vars

\* every running job ends, and a block_for_results call whose jobs have all
\* ended returns
SpecRunFair ==
  /\ SpecRun
  /\ WF_vars(\E j \in DOMAIN run.jobs, status \in TerminalStatus :
               ExperimentStep(JobTerminates(j, status)))
  /\ WF_vars(ExperimentStep(BlockReturns))

NextOptions ==
  \/ \E qubits \in LeafQubits : ExperimentStep(ConstructLeaf(qubits))
  \/ \E fields \in Fields(ExperimentFieldNames) : ExperimentStep(SetExperimentOptions(fields))
  \/ \E fields \in Fields(TranspileFieldNames) : ExperimentStep(SetTranspileOptions(fields))
  \/ \E fields \in Fields(RunFieldNames) : ExperimentStep(SetRunOptions(fields))
  \/ ExperimentStep(Config)
  \/ \E is_dict \in BOOLEAN : ExperimentStep(FromConfig(is_dict))

SpecOptions == Init /\ [][NextOptions]_vars

(***************************************************************************)
(* Properties of the experiment state machine.                             *)
(***************************************************************************)
IsBatch == exp # NoExperiment /\ exp.type = "BatchExperiment"

\* the position at which qubit q first occurs in the sequence flat
FirstOccurrence(flat, q) ==
  CHOOSE i \in DOMAIN flat : flat[i] = q /\ \A j \in 1..(i - 1) : flat[j] # q

\* C11: the qubit map of a BatchExperiment has exactly the components'
\* physical qubits as keys, each once, and gives every qubit the number of
\* distinct qubits that occur before its first occurrence in the scan of
\* the components in list order and of each component's physical qubits in
\* order (so the logical indices are 0, 1, 2, ... in first-occurrence
\* order); building the map again from the same list gives the same map.
C11_QubitMapFirstOccurrence ==
  IsBatch =>
    LET m == exp.qubit_map
        flat == ConcatQubits(exp.comps)
    IN  /\ {m[i][1] : i \in DOMAIN m} = Range(flat)
        /\ \A i, j \in DOMAIN m : i # j => m[i][1] # m[j][1]
        /\ \A i \in DOMAIN m :
             m[i][2] = Cardinality({flat[j] : j \in 1..(FirstOccurrence(flat, m[i][1]) - 1)})
        /\ QubitMap(exp.comps) = m

\* a batch of two components that share a qubit, the second adding a new one
C11_Witness ==
  /\ IsBatch
  /\ Len(exp.comps) = 2
  /\ Range(Experiments[exp.comps[1]].qubits) \cap Range(Experiments[exp.comps[2]].qubits) # {}
  /\ Len(exp.qubit_map) = 3
  /\ exp.qubit_map[3][2] = 2

\* two components of the list share a physical qubit
SharedQubit(experiments) ==
  \E i, j \in DOMAIN experiments :
    /\ i < j
    /\ Range(Experiments[experiments[i]].qubits)
         \cap Range(Experiments[experiments[j]].qubits) # {}

\* C12: constructing a ParallelExperiment of components that share a
\* physical qubit raises and yields no experiment; constructing a
\* BatchExperiment succeeds, whether or not its components share qubits.
C12_ParallelDisjointBatchOverlap ==
  /\ (call.op = "ParallelExperiment" /\ SharedQubit(call.args)) =>
       (call.raised # "none" /\ exp = NoExperiment)
  /\ call.op = "BatchExperiment" =>
       (call.raised = "none" /\ IsBatch /\ exp.comps = call.args)

C12_Witness ==
  /\ call.op = "ParallelExperiment"
  /\ SharedQubit(call.args)
  /\ call.raised = "QiskitError"

\* the composed circuit of the component circuit that holds the stray
\* instruction
StrayCircuit == run.circuits[(run.stray.pos - 1) * NumCirc + run.stray.circ]

HasInstruction(circuit, name) == \E i \in DOMAIN circuit.data : circuit.data[i].name = name

\* C13: BatchExperiment.circuits omits a delay of a component's circuit on
\* a qubit outside the component's physical qubits and raises no error,
\* whether or not another component of the batch uses the qubit.
C13_DelayOmitted ==
  (run.pc = "circuits()" /\ run.stray.name = "delay") =>
    /\ call.raised = "none"
    /\ Len(run.circuits) = NumCirc * Len(exp.comps)
    /\ ~HasInstruction(StrayCircuit, "delay")

\* C14: BatchExperiment.circuits raises and returns no circuits when a
\* component's circuit holds an instruction other than a delay on a qubit
\* outside the component's physical qubits, whether or not another
\* component of the batch uses the qubit.
C14_NonDelayRaises ==
  (run.pc = "circuits()" /\ run.stray.name \in {"x", "cx"}) =>
    /\ call.raised # "none"
    /\ run.circuits = <<>>

\* C15: in a run, a job is submitted only after all circuits of the
\* experiment were composed and transpiled, add_jobs is called only after
\* every job was submitted, and a run that raised has submitted no job.
C15_NoJobBeforeCircuits ==
  /\ run.jobs # <<>> =>
       /\ run.pc \in {"jobs", "add_jobs", "returned"}
       /\ call.raised = "none" \/ call.op = "block_for_results"
       /\ Len(run.circuits) = NumCirc * Len(exp.comps)
  /\ run.job_handles # <<>> =>
       /\ Len(run.jobs) = Len(JobCircuits(run.circuits, run.backend.max_experiments))
       /\ \A n \in DOMAIN run.jobs :
            run.jobs[n].circuits = JobCircuits(run.circuits, run.backend.max_experiments)[n]
  /\ run.pc = "raised" => (run.jobs = <<>> /\ run.job_handles = <<>>)

\* a run whose composition raised on a gate outside the batch's qubits
C15_Witness ==
  /\ run.pc = "raised"
  /\ run.stray.name = "x"
  /\ call.raised = "QiskitError"
  /\ run.jobs = <<>>

\* C16: every circuit BatchExperiment.circuits returns carries the batch's
\* experiment type, the one-element list of the metadata of the component
\* circuit it was built from and the one-element list of the component's
\* position; the two lists have the same length.
C16_BatchCircuitMetadata ==
  run.pc = "circuits()" =>
    \A n \in DOMAIN run.circuits :
      LET index == (n - 1) \div NumCirc
          k == ((n - 1) % NumCirc) + 1
          md == run.circuits[n].metadata
      IN  /\ md.experiment_type = exp.type
          /\ md.composite_metadata = <<LeafMetadata(exp.comps[index + 1], k)>>
          /\ md.composite_index = <<index>>
          /\ Len(md.composite_metadata) = Len(md.composite_index)

C16_Witness ==
  /\ run.pc = "circuits()"
  /\ Len(exp.comps) = 2
  /\ Len(run.circuits) = 2 * NumCirc
  /\ run.circuits[2 * NumCirc].metadata.composite_index = <<1>>

(***************************************************************************)
(* Runs with failed jobs.  The records of a failed job are not ingested:   *)
(* the container of the run holds the records lo..hi of the circuits only, *)
(* and a component none of whose records arrived has an empty slice.       *)
(***************************************************************************)
RunRootPartial(id, e, b, s, lo, hi) ==
  [RunRoot(id, e, b, s) EXCEPT !.data = SubSeq(@, lo, hi)]

RECURSIVE RunComponentsAbort(_, _, _, _, _)
RunComponentsAbort(heap, nid, e, h, idx) ==
  IF idx >= Len(Experiments[e].comps) THEN [heap |-> heap, nid |-> nid]
  ELSE LET slice == ComponentSlice(e, heap[h].data, idx)
           child == [ExperimentData(nid, Experiments[e].comps[idx + 1], heap[h].backend)
                       EXCEPT !.data = slice, !.results = LeafAnalysis(slice)]
           h2 == Append(heap, child)
       IN  IF slice = <<>> THEN [heap |-> heap, nid |-> nid]
           ELSE RunComponentsAbort(AddChildDataOn(h2, h, Len(h2)), nid + 1, e, h, idx + 1)

CompositeAnalysisRun(heap, nid, e, h, idx) == RunComponents(heap, nid, e, h, idx)

RunOnPartial(heap, nid, e, b, s, lo, hi) ==
  LET h1 == Append(heap, RunRootPartial(nid, e, b, s, lo, hi))
  IN  CompositeAnalysisRun(h1, nid + 1, e, Len(h1), 0)

\* e.run(b).block_for_results() of a composite e, the records lo..hi ingested
RunPartial(e, b, s, lo, hi) ==
  /\ IsComposite(e)
  /\ Len(objs) + RunSize(e) <= MaxObjs
  /\ LET r == RunOnPartial(objs, nextId, e, b, s, lo, hi)
     IN  /\ objs' = r.heap
         /\ nextId' = r.nid
  /\ last' = Op("run", e, Len(objs) + 1, FALSE)
  /\ UNCHANGED db

\* the batch with the records of its first component only, of its second
\* component only, of no component and of both; the parallel experiment
\* with no record
PartialInputs ==
  { <<5, FakeBackend, 1, 1, NumCirc>>,
    <<5, FakeBackend, 2, NumCirc + 1, 2 * NumCirc>>,
    <<5, FakeBackend, 1, 1, 0>>,
    <<5, FakeBackend, 3, 1, 2 * NumCirc>>,
    <<4, FakeBackend, 1, 1, 0>> }

NextPartial ==
  \/ \E i \in PartialInputs : Step(RunPartial(i[1], i[2], i[3], i[4], i[5]))
  \/ \E e \in ExpIds, h \in Handles, r \in BOOLEAN : Step(RunAnalysis(e, h, r))

SpecPartial == Init /\ [][NextPartial]_vars

\* the composite experiment of the joint data at h
JointExperiment(h) ==
  CHOOSE e \in ExpIds : IsComposite(e) /\ Experiments[e].type = objs[h].experiment_type

BlockDone == run.block \in {"returned", "timed_out"}

AllJobsTerminal == \A j \in Range(run.job_handles) : run.jobs[j].status \in TerminalStatus

\* the records ingested are records of done jobs, each circuit's once, in
\* the order of the jobs and, within a job, of the circuits
IngestedInOrder ==
  /\ \A n \in DOMAIN run.data :
       /\ run.data[n].job_id \in DOMAIN run.jobs
       /\ run.jobs[run.data[n].job_id].status = "done"
       /\ run.data[n].index \in DOMAIN run.jobs[run.data[n].job_id].circuits
       /\ run.data[n].metadata =
            run.jobs[run.data[n].job_id].circuits[run.data[n].index].metadata
  /\ \A n, m \in DOMAIN run.data :
       n < m => \/ run.data[n].job_id < run.data[m].job_id
                \/ /\ run.data[n].job_id = run.data[m].job_id
                   /\ run.data[n].index < run.data[m].index

\* every circuit of every done job has its record
AllDoneIngested ==
  \A j \in Range(run.job_handles) :
    run.jobs[j].status = "done" =>
      \A i \in DOMAIN run.jobs[j].circuits :
        \E n \in DOMAIN run.data : run.data[n].job_id = j /\ run.data[n].index = i

C19_UnknownExperimentOptionRejected ==
  [][(/\ call'.op = "set_experiment_options"
      /\ \E field \in DOMAIN call'.args :
           field \notin DOMAIN default_experiment_options(exp.type))
     => (call'.raised # "none" /\ exp' = exp)]_vars

\* C20: a set_transpile_options call with initial_layout among its fields
\* raises and leaves the experiment as it was, and initial_layout is never
\* a stored transpile option nor an explicitly set transpile option key.
C20_InitialLayoutRejected ==
  /\ [][(call'.op = "set_transpile_options" /\ "initial_layout" \in DOMAIN call'.args)
        => (call'.raised = "QiskitError" /\ exp' = exp)]_vars
  /\ [](exp # NoExperiment =>
          /\ "initial_layout" \notin DOMAIN exp.transpile_options
          /\ "initial_layout" \notin exp.set_transpile_options)

\* a rejected call that also gave a valid field, which was not applied
C20_Witness ==
  /\ call.op = "set_transpile_options"
  /\ {"initial_layout", "optimization_level"} \subseteq DOMAIN call.args
  /\ call.raised = "QiskitError"
  /\ exp.transpile_options["optimization_level"] = 0
  /\ exp.set_transpile_options = {}

(***************************************************************************)
(* Construction, job sizes, circuit order and layout.                      *)
(***************************************************************************)
DuplicateFree(qubits) == \A i, j \in DOMAIN qubits : i # j => qubits[i] # qubits[j]

\* C21: constructing an experiment with a qubit list that holds a duplicate
\* raises and yields no experiment; a constructed experiment has the given
\* qubits in the given order as physical_qubits, without duplicates, and
\* their number as num_qubits.
C21_DuplicateQubitsRejected ==
  /\ call.op = "FakeExperiment" =>
       /\ ~DuplicateFree(call.args) => (call.raised # "none" /\ exp = NoExperiment)
       /\ call.raised = "none" => (exp # NoExperiment /\ exp.physical_qubits = call.args)
  /\ exp # NoExperiment =>
       /\ DuplicateFree(exp.physical_qubits)
       /\ exp.num_qubits = Len(exp.physical_qubits)

C21_Witness ==
  /\ call.op = "FakeExperiment"
  /\ call.args = <<0, 0>>
  /\ call.raised = "QiskitError"
  /\ exp = NoExperiment

\* the circuits of the jobs one after the other
RECURSIVE JobsCircuits(_)
JobsCircuits(jobs) ==
  IF jobs = <<>> THEN <<>> ELSE Head(jobs).circuits \o JobsCircuits(Tail(jobs))

\* C23: once _run_jobs has submitted its jobs, if the backend states a
\* maximum m > 0 and the number n of circuits exceeds m there are
\* ceil(n / m) jobs of 1 to m circuits each, and otherwise one job; the
\* jobs' circuits one after the other are the circuits of the run.
C23_JobChunks ==
  run.pc \in {"add_jobs", "returned"} =>
    LET m == run.backend.max_experiments
        n == Len(run.circuits)
    IN  /\ JobsCircuits(run.jobs) = run.circuits
        /\ IF m > 0 /\ n > m
           THEN /\ Len(run.jobs) = (n + m - 1) \div m
                /\ \A j \in DOMAIN run.jobs :
                     Len(run.jobs[j].circuits) >= 1 /\ Len(run.jobs[j].circuits) <= m
           ELSE Len(run.jobs) = 1

\* a last job smaller than the others
C23_Witness ==
  /\ run.pc = "returned"
  /\ Len(run.jobs) = 2
  /\ Len(run.jobs[1].circuits) = run.backend.max_experiments
  /\ Len(run.jobs[2].circuits) < run.backend.max_experiments

\* the names and classical bits of the instructions of a circuit
Shape(data) == [i \in DOMAIN data |-> <<data[i].name, data[i].cargs>>]

\* the instructions of a component's circuit that the batch keeps
Kept(self, data) == SelectSeq(data, LAMBDA inst : ~KeyError(self.qubit_map, inst.qargs))

\* the transpiled circuit of a component the composed circuit n was built from
SourceCircuit(n) ==
  TranspiledCircuit(exp.comps[((n - 1) \div NumCirc) + 1], ((n - 1) \div NumCirc) + 1,
                    ((n - 1) % NumCirc) + 1, run.stray)

\* C24: BatchExperiment.circuits, when it returns, returns one composed
\* circuit per circuit of every component, ordered by component and, within
\* a component, by the component's circuits: the composite_index values do
\* not decrease, and the instructions of a composed circuit are the kept
\* instructions of its source circuit in their order.
C24_BatchCircuitOrder ==
  (run.pc = "circuits()" /\ call.raised = "none") =>
    /\ Len(run.circuits) = NumCirc * Len(exp.comps)
    /\ \A n \in DOMAIN run.circuits :
         /\ run.circuits[n].metadata.composite_metadata = <<SourceCircuit(n).metadata>>
         /\ Shape(run.circuits[n].data) = Shape(Kept(exp, SourceCircuit(n).data))
    /\ \A n, m \in DOMAIN run.circuits :
         n < m => run.circuits[n].metadata.composite_index[1]
                    <= run.circuits[m].metadata.composite_index[1]

\* a composed circuit that kept a stray gate in front of the measurements
C24_Witness ==
  /\ run.pc = "circuits()"
  /\ call.raised = "none"
  /\ run.stray.name = "x"
  /\ Len(exp.comps) = 2
  /\ Len(run.circuits[(run.stray.pos - 1) * NumCirc + run.stray.circ].data) = 3

\* C28: the qubit map of a BatchExperiment maps the components' physical
\* qubits one-to-one onto 0..num_qubits-1, physical_qubits[qubit_map[p]] is
\* p for every mapped qubit p, and an instruction the batch keeps is, after
\* the layout of the batch circuit with initial_layout = physical_qubits,
\* on the physical qubits it was on in the component's circuit.
C28_QubitMapInvertsLayout ==
  IsBatch =>
    LET m == exp.qubit_map
    IN  /\ {m[i][1] : i \in DOMAIN m} = Range(ConcatQubits(exp.comps))
        /\ {m[i][2] : i \in DOMAIN m} = 0..(exp.num_qubits - 1)
        /\ \A i, j \in DOMAIN m : i # j => (m[i][1] # m[j][1] /\ m[i][2] # m[j][2])
        /\ \A i \in DOMAIN m : exp.physical_qubits[m[i][2] + 1] = m[i][1]
        /\ (run.pc = "circuits()" /\ call.raised = "none") =>
             \A n \in DOMAIN run.circuits :
               LET laid == Transpile(run.circuits[n], exp.physical_qubits).data
                   kept == Kept(exp, SourceCircuit(n).data)
               IN  /\ Len(laid) = Len(kept)
                   /\ \A i \in DOMAIN laid : laid[i].qargs = kept[i].qargs

\* circuits of a batch whose map is not the identity, with a kept gate
C28_Witness ==
  /\ IsBatch
  /\ run.pc = "circuits()"
  /\ call.raised = "none"
  /\ run.stray.name = "cx"
  /\ \E i \in DOMAIN exp.qubit_map : exp.qubit_map[i][1] # exp.qubit_map[i][2]

(***************************************************************************)
(* The explicitly set options and the config of an experiment.             *)
(***************************************************************************)
SetKeys(self) ==
  <<self.set_experiment_options, self.set_transpile_options, self.set_run_options>>

OptionValuesOf(self) ==
  <<self.experiment_options, self.transpile_options, self.run_options>>

\* the keys a set_*_options call adds to the three families
AddedKeys(c) ==
  IF c.raised # "none" THEN <<{}, {}, {}>>
  ELSE IF c.op = "set_experiment_options" THEN <<DOMAIN c.args, {}, {}>>
  ELSE IF c.op = "set_transpile_options" THEN <<{}, DOMAIN c.args, {}>>
  ELSE <<{}, {}, DOMAIN c.args>>

\* C27: a new experiment has no explicitly set key; a set_*_options call
\* that succeeds adds exactly its field names to the set keys of its family
\* and one that raises adds none, so the set keys are the union of the
\* field names of the successful calls; config() reports exactly the set
\* keys with their current values; from_config(config()) builds an
\* experiment with the same option values and the same set keys.
C27_SetKeysAndConfigRoundTrip ==
  [][/\ call'.op = "FakeExperiment" /\ call'.raised = "none" =>
          SetKeys(exp') = <<{}, {}, {}>>
     /\ call'.op \in {"set_experiment_options", "set_transpile_options", "set_run_options"} =>
          \A f \in 1..3 : SetKeys(exp')[f] = SetKeys(exp)[f] \cup AddedKeys(call')[f]
     /\ call'.op = "config" =>
          LET c == call'.args
              d == <<c.experiment_options, c.transpile_options, c.run_options>>
          IN  \A f \in 1..3 :
                /\ DOMAIN d[f] = SetKeys(exp)[f]
                /\ \A key \in DOMAIN d[f] : d[f][key] = OptionValuesOf(exp)[f][key]
     /\ call'.op = "from_config" /\ ~call'.args.is_dict =>
          /\ call'.raised = "none"
          /\ SetKeys(exp') = SetKeys(exp)
          /\ OptionValuesOf(exp') = OptionValuesOf(exp)
          /\ exp'.physical_qubits = exp.physical_qubits
    ]_vars

\* an experiment rebuilt from a config that holds keys of all three families
C27_Witness ==
  /\ call.op = "from_config"
  /\ ~call.args.is_dict
  /\ call.raised = "none"
  /\ exp.set_experiment_options # {}
  /\ exp.set_transpile_options # {}
  /\ exp.set_run_options # {}

\* C29: from_config accepts the config as a plain dict as well as an
\* ExperimentConfig: it does not raise and builds the experiment that the
\* ExperimentConfig of the same content builds.
C29_FromConfigAcceptsDict ==
  call.op = "from_config" =>
    /\ call.raised = "none"
    /\ exp = from_config(call.args.config, FALSE).obj

(***************************************************************************)
(* Experiments as objects.  copy() and run() are about which objects two   *)
(* experiments share, so here the experiments, their Options objects and   *)
(* their analysis objects are entries of a store, exps, and refer to one   *)
(* another by their position in it.  An experiment holds the positions of  *)
(* its three Options objects, of its analysis (None when it has none) and  *)
(* of its component experiments; an analysis holds the position of its     *)
(* Options object.                                                         *)
(***************************************************************************)
OptionsObject(fields) == [class |-> "Options", fields |-> fields]

AnalysisObject(options) == [class |-> "BaseAnalysis", options |-> options]

IsExperimentObject(o) ==
  o.class \in {"FakeExperiment", "ParallelExperiment", "BatchExperiment"}

ExperimentHandles(h) == {e \in DOMAIN h : IsExperimentObject(h[e])}

LeafHandles(h) == {e \in DOMAIN h : h[e].class = "FakeExperiment"}

\* the experiment object BaseExperiment.__init__ leaves: init is the result
\* of the constructor, at the position after which its Options objects and
\* its analysis are stored
ExperimentObject(init, id, experiments, at) ==
  [class |-> init.type, id |-> id,
   physical_qubits |-> init.physical_qubits, num_qubits |-> init.num_qubits,
   experiments |-> experiments,
   experiment_options |-> at + 1, transpile_options |-> at + 2, run_options |-> at + 3,
   set_experiment_options |-> init.set_experiment_options,
   set_transpile_options |-> init.set_transpile_options,
   set_run_options |-> init.set_run_options,
   analysis |-> at + 5,
   backend |-> NoneStr]

\* the constructor of the class, from the ids of the components
ClassInit(type, id, ids) ==
  IF type = "FakeExperiment"
  THEN BaseExperimentInit(type, Experiments[id].qubits, <<>>, <<>>)
  ELSE IF type = "BatchExperiment" THEN BatchExperimentInit(ids)
  ELSE ParallelExperimentInit(ids)

\* a composite that takes the Options objects of its first component
constructComponentOptions(h, type, id, experiments) ==
  LET r == ClassInit(type, id, [i \in DOMAIN experiments |-> h[experiments[i]].id])
      n == Len(h)
  IN  IF r.raised # "none" THEN [raised |-> r.raised, heap |-> h, ret |-> None]
      ELSE [raised |-> "none",
            heap |-> h \o << OptionsObject(r.obj.experiment_options),
                             OptionsObject(r.obj.transpile_options),
                             OptionsObject(r.obj.run_options),
                             OptionsObject(EmptyOptions),
                             AnalysisObject(n + 4),
                             IF experiments = <<>>
                             THEN ExperimentObject(r.obj, id, experiments, n)
                             ELSE [ExperimentObject(r.obj, id, experiments, n) EXCEPT
                                     !.experiment_options = h[experiments[1]].experiment_options,
                                     !.transpile_options = h[experiments[1]].transpile_options,
                                     !.run_options = h[experiments[1]].run_options] >>,
            ret |-> n + 6]

\* construction of an experiment: on success new Options objects with the
\* class defaults, a new analysis with its own Options object, and the
\* experiment
construct(h, type, id, experiments) ==
  LET r == ClassInit(type, id, [i \in DOMAIN experiments |-> h[experiments[i]].id])
      n == Len(h)
  IN  IF r.raised # "none" THEN [raised |-> r.raised, heap |-> h, ret |-> None]
      ELSE [raised |-> "none",
            heap |-> h \o << OptionsObject(r.obj.experiment_options),
                             OptionsObject(r.obj.transpile_options),
                             OptionsObject(r.obj.run_options),
                             OptionsObject(EmptyOptions),
                             AnalysisObject(n + 4),
                             ExperimentObject(r.obj, id, experiments, n) >>,
            ret |-> n + 6]

\* the experiment with its Options objects read
Deref(h, e) ==
  [h[e] EXCEPT !.experiment_options = h[@].fields,
               !.transpile_options = h[@].fields,
               !.run_options = h[@].fields]

\* the result of a setter written to the experiment and its Options objects
WriteBack(h, e, obj) ==
  [i \in DOMAIN h |->
     IF i = h[e].experiment_options THEN OptionsObject(obj.experiment_options)
     ELSE IF i = h[e].transpile_options THEN OptionsObject(obj.transpile_options)
     ELSE IF i = h[e].run_options THEN OptionsObject(obj.run_options)
     ELSE IF i = e
          THEN [h[e] EXCEPT !.set_experiment_options = obj.set_experiment_options,
                            !.set_transpile_options = obj.set_transpile_options,
                            !.set_run_options = obj.set_run_options]
     ELSE h[i]]

\* set_experiment_options, set_transpile_options, set_run_options of the
\* experiment at e
set_options(h, e, family, fields) ==
  LET r == IF family = "experiment" THEN set_experiment_options(Deref(h, e), fields)
           ELSE IF family = "transpile" THEN set_transpile_options(Deref(h, e), fields)
           ELSE set_run_options(Deref(h, e), fields)
  IN  [raised |-> r.raised,
       heap |-> IF r.raised = "none" THEN WriteBack(h, e, r.obj) ELSE h]

\* set_analysis_options: the update of the options of the analysis
set_analysis_options(h, e, fields) ==
  IF h[e].analysis = None THEN [raised |-> "AttributeError", heap |-> h]
  ELSE [raised |-> "none",
        heap |-> [h EXCEPT ![h[h[e].analysis].options] =
                    OptionsObject(update_options(@.fields, fields))]]

\* a new analysis instance with its Options object
NewAnalysis(h) ==
  [heap |-> h \o <<OptionsObject(EmptyOptions), AnalysisObject(Len(h) + 1)>>,
   ret |-> Len(h) + 2]

\* BaseAnalysis.copy(): a new analysis with a copy of the Options object
analysis_copy(h, a) ==
  [heap |-> h \o <<h[h[a].options], [h[a] EXCEPT !.options = Len(h) + 1]>>,
   ret |-> Len(h) + 2]

\* a copy that shares the Options objects and the analysis
copyShallow(h, e) == [heap |-> Append(h, h[e]), ret |-> Len(h) + 1]

\* copy(): a shallow copy of the experiment that gets a copy of the analysis,
\* when there is one, and copies of the three Options objects and of the
\* three sets of explicitly set keys
copy(h, e) ==
  LET a  == IF h[e].analysis # None THEN analysis_copy(h, h[e].analysis)
            ELSE [heap |-> h, ret |-> None]
      h1 == a.heap
      n  == Len(h1)
      h2 == h1 \o <<h1[h[e].experiment_options], h1[h[e].run_options],
                    h1[h[e].transpile_options]>>
      ret == [h[e] EXCEPT !.analysis = a.ret,
                          !.experiment_options = n + 1,
                          !.run_options = n + 2,
                          !.transpile_options = n + 3]
  IN  [heap |-> Append(h2, ret), ret |-> n + 4]

\* what run() is given as analysis: the default, None, or an instance
AnalysisArguments == {"default", "None", "instance"}

\* run() without the copy: the overrides are set on the experiment itself
execution_in_place(h, e, backend, analysis) ==
  LET a  == IF analysis = "instance" THEN NewAnalysis(h) ELSE [heap |-> h, ret |-> None]
      h2 == IF backend # NoneStr THEN [a.heap EXCEPT ![e].backend = backend] ELSE a.heap
      h3 == IF analysis = "instance" THEN [h2 EXCEPT ![e].analysis = a.ret] ELSE h2
  IN  [heap |-> h3, ret |-> e]

\* the experiment run() executes: a copy with the backend and the analysis
\* given when a backend or an analysis is given, and the experiment itself
\* otherwise
execution(h, e, backend, analysis) ==
  IF backend # NoneStr \/ analysis # "default"
  THEN LET a  == IF analysis = "instance" THEN NewAnalysis(h)
                 ELSE [heap |-> h, ret |-> None]
           c  == copy(a.heap, e)
           h2 == IF backend # NoneStr THEN [c.heap EXCEPT ![c.ret].backend = backend]
                 ELSE c.heap
           h3 == IF analysis = "instance" THEN [h2 EXCEPT ![c.ret].analysis = a.ret]
                 ELSE h2
       IN  [heap |-> h3, ret |-> c.ret]
  ELSE [heap |-> h, ret |-> e]

\* run(): the experiment executed, the exception when it has no backend,
\* and what the execution uses: the backend, the run options (a copy of the
\* experiment's, updated with the options given) and the analysis that is
\* run.  Of the objects made by the call the store keeps none: the caller
\* holds no reference to them besides the data returned.
run_experiment(h, e, backend, analysis, run_options) ==
  LET x == execution(h, e, backend, analysis)
      executed == x.heap[x.ret]
  IN  IF executed.backend = NoneStr
      THEN [raised |-> "QiskitError", heap |-> SubSeq(x.heap, 1, Len(h)),
            backend |-> NoneStr, run_opts |-> EmptyOptions, analysis |-> None]
      ELSE [raised |-> "none", heap |-> SubSeq(x.heap, 1, Len(h)),
            backend |-> executed.backend,
            run_opts |-> update_options(x.heap[executed.run_options].fields, run_options),
            analysis |-> IF analysis = "None" THEN None ELSE executed.analysis]

(***************************************************************************)
(* The actions on the store.                                               *)
(***************************************************************************)
\* FakeExperiment(qubits), for the qubits of a leaf of the table
NewLeaf(id) ==
  LET r == construct(exps, "FakeExperiment", id, <<>>)
  IN  /\ exps' = r.heap
      /\ call' = Call("FakeExperiment", [id |-> id, ret |-> r.ret], r.raised)

\* ParallelExperiment(experiments), BatchExperiment(experiments)
NewComposite(type, experiments) ==
  LET r == construct(exps, type, 0, experiments)
  IN  /\ exps' = r.heap
      /\ call' = Call(type, [experiments |-> experiments, ret |-> r.ret], r.raised)

SetOptions(e, family, fields) ==
  LET r == set_options(exps, e, family, fields)
  IN  /\ exps' = r.heap
      /\ call' = Call("set_options", [self |-> e, family |-> family, fields |-> fields],
                      r.raised)

SetAnalysisOptions(e, fields) ==
  LET r == set_analysis_options(exps, e, fields)
  IN  /\ exps' = r.heap
      /\ call' = Call("set_analysis_options", [self |-> e, fields |-> fields], r.raised)

\* experiment.analysis = None, or = a new analysis instance
SetAnalysis(e, instance) ==
  LET a == IF instance THEN NewAnalysis(exps) ELSE [heap |-> exps, ret |-> None]
  IN  /\ exps' = [a.heap EXCEPT ![e].analysis = a.ret]
      /\ call' = Call("analysis", [self |-> e, analysis |-> a.ret], "none")

\* experiment.backend = backend
SetBackend(e, backend) ==
  /\ exps' = [exps EXCEPT ![e].backend = backend]
  /\ call' = Call("backend", [self |-> e, backend |-> backend], "none")

CopyExperiment(e) ==
  LET r == copy(exps, e)
  IN  /\ exps' = r.heap
      /\ call' = Call("copy", [self |-> e, ret |-> r.ret], "none")

RunExperiment(e, backend, analysis, run_options) ==
  LET r == run_experiment(exps, e, backend, analysis, run_options)
  IN  /\ exps' = r.heap
      /\ call' = Call("run", [self |-> e, backend |-> backend, analysis |-> analysis,
                              run_options |-> run_options,
                              used |-> [backend |-> r.backend, run_opts |-> r.run_opts,
                                        analysis |-> r.analysis]],
                      r.raised)

ObjectStep(A) ==
  /\ steps < MaxSteps
  /\ steps' = steps + 1
  /\ A
  /\ UNCHANGED <<objs, nextId, db, last, exp, run>>

OptionFamilies == {"experiment", "transpile", "run"}

\* the fields the options of the components are set with
FamilyFields(family) ==
  IF family = "experiment" THEN Fields({"dummyoption"})
  ELSE IF family = "transpile" THEN Fields({"optimization_level"})
  ELSE Fields({"shots"})

\* one or two different leaf experiments of the store
ComponentHandles(h) ==
  {<<a>> : a \in LeafHandles(h)}
    \cup {c \in {<<a, b>> : a, b \in LeafHandles(h)} : c[1] # c[2]}

\* components with options, composed
NextCompose ==
  \/ \E id \in LeafIds : ObjectStep(NewLeaf(id))
  \/ \E type \in {"ParallelExperiment", "BatchExperiment"},
        experiments \in ComponentHandles(exps) :
        ObjectStep(NewComposite(type, experiments))
  \/ \E e \in ExperimentHandles(exps), family \in OptionFamilies :
        \E fields \in FamilyFields(family) : ObjectStep(SetOptions(e, family, fields))
  \/ \E e \in ExperimentHandles(exps), fields \in Fields({"dummyoption"}) :
        ObjectStep(SetAnalysisOptions(e, fields))

SpecCompose == Init /\ [][NextCompose]_vars

\* one experiment and its copies
NextCopy ==
  \/ \E id \in {1} : exps = <<>> /\ ObjectStep(NewLeaf(id))
  \/ \E e \in ExperimentHandles(exps) : ObjectStep(CopyExperiment(e))
  \/ \E e \in ExperimentHandles(exps), family \in OptionFamilies :
        \E fields \in FamilyFields(family) : ObjectStep(SetOptions(e, family, fields))
  \/ \E e \in ExperimentHandles(exps), fields \in Fields({"dummyoption"}) :
        ObjectStep(SetAnalysisOptions(e, fields))
  \/ \E e \in ExperimentHandles(exps), instance \in BOOLEAN :
        ObjectStep(SetAnalysis(e, instance))

SpecCopy == Init /\ [][NextCopy]_vars

\* one experiment, its backend and run options, and its runs
NextOverride ==
  \/ \E id \in {1} : exps = <<>> /\ ObjectStep(NewLeaf(id))
  \/ \E e \in ExperimentHandles(exps), backend \in {"fake_backend"} :
        ObjectStep(SetBackend(e, backend))
  \/ \E e \in ExperimentHandles(exps), fields \in Fields({"shots", "meas_level"}) :
        ObjectStep(SetOptions(e, "run", fields))
  \/ \E e \in ExperimentHandles(exps), instance \in BOOLEAN :
        ObjectStep(SetAnalysis(e, instance))
  \/ \E e \in ExperimentHandles(exps), backend \in {NoneStr, "fake_chunked"},
        analysis \in AnalysisArguments,
        run_options \in Fields({"shots"}) \cup {EmptyOptions} :
        ObjectStep(RunExperiment(e, backend, analysis, run_options))

SpecOverride == Init /\ [][NextOverride]_vars

(***************************************************************************)
(* What an experiment's options, set keys, analysis and backend are.       *)
(***************************************************************************)
ExperimentOptionsOf(h, e) == h[h[e].experiment_options].fields

TranspileOptionsOf(h, e) == h[h[e].transpile_options].fields

RunOptionsOf(h, e) == h[h[e].run_options].fields

AnalysisOptionsOf(h, e) ==
  IF h[e].analysis = None THEN EmptyOptions ELSE h[h[h[e].analysis].options].fields

IsCompositeObject(o) == o.class \in {"ParallelExperiment", "BatchExperiment"}

\* C22: a composite experiment on which no option was set has the class
\* defaults as its options (no experiment option, meas_level 2,
\* optimization_level 0), whatever was set on its components before or
\* after it was composed.
C22_CompositeOptionsAreDefaults ==
  \A c \in DOMAIN exps :
    ( /\ IsCompositeObject(exps[c])
      /\ exps[c].set_experiment_options = {}
      /\ exps[c].set_transpile_options = {}
      /\ exps[c].set_run_options = {} ) =>
        /\ ExperimentOptionsOf(exps, c) = EmptyOptions
        /\ RunOptionsOf(exps, c) = [n \in {"meas_level"} |-> 2]
        /\ TranspileOptionsOf(exps, c) = [n \in {"optimization_level"} |-> 0]

\* a composite of two components, the first with a transpile option set, as
\* in the test
C22_Witness ==
  \E c \in DOMAIN exps :
    /\ IsCompositeObject(exps[c])
    /\ Len(exps[c].experiments) = 2
    /\ exps[c].set_transpile_options = {}
    /\ TranspileOptionsOf(exps, exps[c].experiments[1])["optimization_level"] = 1

\* C25: a call of run, whether it returns or raises, leaves the experiment
\* it is called on with the backend, the analysis instance, the run option
\* values and the sets of explicitly set keys it had before.
C25_RunOverridesLeaveExperiment ==
  [][call'.op = "run" =>
       LET e == call'.args.self
       IN  /\ exps'[e].backend = exps[e].backend
           /\ exps'[e].analysis = exps[e].analysis
           /\ RunOptionsOf(exps', e) = RunOptionsOf(exps, e)
           /\ exps'[e].set_experiment_options = exps[e].set_experiment_options
           /\ exps'[e].set_transpile_options = exps[e].set_transpile_options
           /\ exps'[e].set_run_options = exps[e].set_run_options
    ]_vars

\* a run on a backend and with a run option given to the call, of an
\* experiment that has another backend and no such option
C25_Witness ==
  /\ call.op = "run"
  /\ call.raised = "none"
  /\ call.args.used.backend = "fake_chunked"
  /\ exps[call.args.self].backend = "fake_backend"
  /\ "shots" \in DOMAIN call.args.used.run_opts
  /\ "shots" \notin DOMAIN RunOptionsOf(exps, call.args.self)

\* the option values, the set keys and the analysis, with its options, of an
\* experiment
OptionsView(h, e) ==
  [experiment_options |-> ExperimentOptionsOf(h, e),
   transpile_options |-> TranspileOptionsOf(h, e),
   run_options |-> RunOptionsOf(h, e),
   set_experiment_options |-> h[e].set_experiment_options,
   set_transpile_options |-> h[e].set_transpile_options,
   set_run_options |-> h[e].set_run_options,
   analysis |-> h[e].analysis,
   analysis_options |-> AnalysisOptionsOf(h, e)]

\* C26: among an experiment and its copies, a set_experiment_options,
\* set_transpile_options or set_run_options call on one, or a change of its
\* analysis or of the options of its analysis, leaves the option values,
\* the explicitly set keys and the analysis of every other one unchanged.
C26_CopyIsIndependent ==
  [][call'.op \in {"set_options", "set_analysis_options", "analysis"} =>
       \A e \in ExperimentHandles(exps) \ {call'.args.self} :
         OptionsView(exps', e) = OptionsView(exps, e)
    ]_vars

\* an experiment and a copy of it whose run options and whose analysis
\* options differ
C26_Witness ==
  /\ call.op \in {"set_options", "set_analysis_options"}
  /\ call.raised = "none"
  /\ \E e, e2 \in ExperimentHandles(exps) :
       /\ RunOptionsOf(exps, e) # RunOptionsOf(exps, e2)
       /\ AnalysisOptionsOf(exps, e) # AnalysisOptionsOf(exps, e2)

====
